---- MODULE Spec2Model ----
(***************************************************************************)
(* A model of the US Tax Code (Title 26) USLM parser: the document tree    *)
(* builder (USLMParser), the citation resolver, the status classifier,     *)
(* the text normalizer, the table renderer, the cross-reference extractor  *)
(* and the flattening of a tree for the graph loader.                      *)
(*                                                                         *)
(* Python strings are modelled as sequences of one-character strings, so   *)
(* that strip, split, startswith, slicing, lower() and the regular         *)
(* expressions are computed character by character as the code does.       *)
(***************************************************************************)
EXTENDS Integers, Sequences, FiniteSets, TLC

VARIABLES
    doc,               \* the source document: its elements in pre-order
    max_sections,      \* USLMParser.max_sections
    sections_parsed,   \* USLMParser.sections_parsed
    total_nodes,       \* USLMParser.total_nodes
    repealed_sections, \* USLMParser.repealed_sections
    stack,             \* the active calls of _parse_element, outermost first
    via,               \* the entry point of the parse in progress, or "idle"
    returned,          \* what the parses made on this parser instance returned
    call,              \* the function applied and its arguments (function specifications)
    ret                \* what that function returned, None before it has

vars == <<doc, max_sections, sections_parsed, total_nodes, repealed_sections,
          stack, via, returned, call, ret>>

parserVars == <<doc, max_sections, sections_parsed, total_nodes,
                repealed_sections, stack, via, returned>>

(***************************************************************************)
(* Bounds of the model.                                                    *)
(***************************************************************************)
\* Largest number of source elements in a document, the root title included.
MaxElems == 3
\* Largest cutoff value passed as max_sections.
MaxCutoff == 2
\* Largest number of parse_file calls made on one parser instance.
MaxParses == 2
\* Largest number of phrases a reference text is made of.
MaxPhrases == 3
\* Number of elements of the documents of the specification SpecNested.
MaxNested == 4
\* Largest number of pieces a text to clean is made of.
MaxPieces == 3
\* Largest number of tr elements of a table.
MaxRows == 3
\* Largest number of nodes of a tree handed to the graph utilities.
MaxTreeNodes == 4
\* Largest number of child elements of an element whose text is extracted.
MaxChildren == 3
\* The longest list of references handed to the batch writer.
MaxRefs == 3
\* The largest batch_size of the batch writer.
MaxBatch == 2
\* The most drivers one TaxCodeGraph creates.
MaxDrivers == 3
\* Largest number of segments an identifier path has after /us/usc/t26.
MaxSegments == 2

(***************************************************************************)
(* Strings as sequences of characters.                                     *)
(***************************************************************************)
\* Optional values: Python's None, and a value that is present.
None == <<>>
Some(x) == <<x>>

Digits == {"0", "1", "2", "3", "4", "5", "6", "7", "8", "9"}

LowerLetters ==
    {"a", "b", "c", "d", "e", "f", "g", "h", "i", "j", "k", "l", "m",
     "n", "o", "p", "q", "r", "s", "t", "u", "v", "w", "x", "y", "z"}

UpperLetters ==
    {"A", "B", "C", "D", "E", "F", "G", "H", "I", "J", "K", "L", "M",
     "N", "O", "P", "Q", "R", "S", "T", "U", "V", "W", "X", "Y", "Z"}

\* The character U+00A0 (no-break space), which &nbsp; decodes to.
NBSP == "NBSP"

\* The \s class of the re module, which is also what str.strip() removes, on
\* the characters the model uses.
Whitespace == {" ", "\n", "\t", NBSP}

\* The \w class of the re module, on the characters the model uses.
WordChars == Digits \cup LowerLetters \cup UpperLetters \cup {"_"}

\* str.lower() on one character.
LowerChar(c) ==
    CASE c = "A" -> "a" [] c = "B" -> "b" [] c = "C" -> "c" [] c = "D" -> "d"
      [] c = "E" -> "e" [] c = "F" -> "f" [] c = "G" -> "g" [] c = "H" -> "h"
      [] c = "I" -> "i" [] c = "J" -> "j" [] c = "K" -> "k" [] c = "L" -> "l"
      [] c = "M" -> "m" [] c = "N" -> "n" [] c = "O" -> "o" [] c = "P" -> "p"
      [] c = "Q" -> "q" [] c = "R" -> "r" [] c = "S" -> "s" [] c = "T" -> "t"
      [] c = "U" -> "u" [] c = "V" -> "v" [] c = "W" -> "w" [] c = "X" -> "x"
      [] c = "Y" -> "y" [] c = "Z" -> "z" [] OTHER -> c

\* str.lower()
Lower(s) == [i \in 1..Len(s) |-> LowerChar(s[i])]

\* s[from:] with a 0-based start, as a Python slice.
SliceFrom(s, from) == SubSeq(s, from + 1, Len(s))

\* s[from:to] with 0-based, end-exclusive bounds, as a Python slice.
Slice(s, from, to) == SubSeq(s, from + 1, to)

\* s.startswith(prefix)
StartsWith(s, prefix) ==
    /\ Len(prefix) <= Len(s)
    /\ SubSeq(s, 1, Len(prefix)) = prefix

\* needle in hay
Contains(hay, needle) ==
    \E i \in 1..(Len(hay) - Len(needle) + 1) :
        SubSeq(hay, i, i + Len(needle) - 1) = needle

\* The number of leading characters of s that are in the set chars.
RECURSIVE LeadingRun(_, _)
LeadingRun(s, chars) ==
    IF s # <<>> /\ Head(s) \in chars
    THEN 1 + LeadingRun(Tail(s), chars)
    ELSE 0

\* The number of trailing characters of s that are in the set chars.
RECURSIVE TrailingRun(_, _)
TrailingRun(s, chars) ==
    IF s # <<>> /\ s[Len(s)] \in chars
    THEN 1 + TrailingRun(SubSeq(s, 1, Len(s) - 1), chars)
    ELSE 0

\* s.strip(chars): every leading and trailing character in chars removed.
Strip(s, chars) ==
    LET lead == LeadingRun(s, chars)
    IN  IF lead = Len(s) THEN <<>>
        ELSE SubSeq(s, lead + 1, Len(s) - TrailingRun(s, chars))

\* s.split(sep) for a one-character separator: "" splits to [""], and two
\* separators in a row give an empty part.
RECURSIVE Split(_, _)
Split(s, sep) ==
    IF \E i \in 1..Len(s) : s[i] = sep
    THEN LET i == CHOOSE k \in 1..Len(s) :
                      s[k] = sep /\ \A j \in 1..(k - 1) : s[j] # sep
         IN  <<SubSeq(s, 1, i - 1)>> \o Split(SubSeq(s, i + 1, Len(s)), sep)
    ELSE <<s>>

\* "".join(parts)
RECURSIVE Join(_)
Join(parts) ==
    IF parts = <<>> THEN <<>> ELSE Head(parts) \o Join(Tail(parts))

(***************************************************************************)
(* USLMParser._build_citation_id                                           *)
(***************************************************************************)
Str_26USC == <<"2", "6", " ", "U", "S", "C", " ">>
Str_unknown == <<"u", "n", "k", "n", "o", "w", "n">>
Str_us == <<"u", "s">>
Str_usc == <<"u", "s", "c">>
Str_Sec == <<"S", "e", "c">>

\* re.sub(r"^Sec\.?\s*", "", num): a leading "Sec", one "." after it if there
\* is one, and the whitespace that follows, removed.
CleanNum(n) ==
    IF StartsWith(n, Str_Sec)
    THEN LET afterSec == SliceFrom(n, 3)
             afterDot == IF StartsWith(afterSec, <<".">>)
                         THEN SliceFrom(afterSec, 1) ELSE afterSec
         IN  SliceFrom(afterDot, LeadingRun(afterDot, Whitespace))
    ELSE n

\* The loop over parts[3:]: the state is [in_section, section_parts].
RECURSIVE CitationLoop(_, _, _)
CitationLoop(parts, in_section, section_parts) ==
    IF parts = <<>> THEN section_parts
    ELSE LET part == Head(parts)
             rest == Tail(parts)
         IN  IF StartsWith(part, <<"s">>)
             THEN CitationLoop(rest, TRUE,
                               Append(section_parts, SliceFrom(part, 1)))
             ELSE IF StartsWith(part, <<"s", "t">>)
             THEN CitationLoop(rest, in_section, section_parts)
             ELSE IF StartsWith(part, <<"c", "h">>)
             THEN CitationLoop(rest, in_section, section_parts)
             ELSE IF StartsWith(part, <<"s", "c", "h">>)
             THEN CitationLoop(rest, in_section, section_parts)
             ELSE IF StartsWith(part, <<"p", "t">>)
             THEN CitationLoop(rest, in_section, section_parts)
             ELSE IF StartsWith(part, <<"s", "p", "t">>)
             THEN CitationLoop(rest, in_section, section_parts)
             ELSE IF in_section
             THEN CitationLoop(rest, in_section,
                               Append(section_parts, <<"(">> \o part \o <<")">>))
             ELSE CitationLoop(rest, in_section, section_parts)

\* A citation that takes the parser's node counter into the id of a node
\* without an identifier: hidden parser state in the derivation.
BuildCitationIdCounting(node_type, n, ident) ==
    IF ident = <<>>
    THEN Str_26USC \o (IF n # <<>> THEN n ELSE Str_unknown)
                   \o (IF total_nodes > 1 THEN <<"#">> ELSE <<>>)
    ELSE Str_26USC \o ident

\* A citation that ignores the declared number of a node without an
\* identifier.
BuildCitationIdUnknownOnly(node_type, n, ident) ==
    IF ident = <<>>
    THEN Str_26USC \o Str_unknown
    ELSE Str_26USC \o ident

\* _build_citation_id(node_type, num, identifier); num None is the empty
\* string here, which `num or 'unknown'` and `if num` treat alike.
BuildCitationId(node_type, n, ident) ==
    LET parts == Split(Strip(ident, {"/"}), "/")
        section_parts ==
            IF Len(parts) >= 4 /\ parts[1] = Str_us /\ parts[2] = Str_usc
            THEN CitationLoop(SubSeq(parts, 4, Len(parts)), FALSE, <<>>)
            ELSE <<>>
    IN  IF ident = <<>>
        THEN Str_26USC \o (IF n # <<>> THEN n ELSE Str_unknown)
        ELSE IF section_parts # <<>>
        THEN Str_26USC \o Join(section_parts)
        ELSE IF n # <<>>
        THEN Str_26USC \o CleanNum(n)
        ELSE Str_26USC \o ident

(***************************************************************************)
(* USLMParser._determine_status                                            *)
(***************************************************************************)
Str_repeal == <<"r", "e", "p", "e", "a", "l">>
Str_expired == <<"e", "x", "p", "i", "r", "e", "d">>
Str_reserved == <<"r", "e", "s", "e", "r", "v", "e", "d">>
Str_br_repealed == <<"[">> \o Str_repeal \o <<"e", "d">>
Str_repealed_dot == Str_repeal \o <<"e", "d", ".">>
Str_br_expired == <<"[">> \o Str_expired

\* The classifier with the text consulted before the status attribute.
DetermineStatusTextFirst(status_attr, elem_text) ==
    LET attr == Lower(status_attr)
        text == Lower(elem_text)
    IN  IF Contains(text, Str_br_repealed) \/ Contains(text, Str_repealed_dot)
        THEN "repealed"
        ELSE IF Contains(text, Str_br_expired) THEN "expired"
        ELSE IF Contains(attr, Str_repeal) THEN "repealed"
        ELSE IF Contains(attr, Str_expired) THEN "expired"
        ELSE IF Contains(attr, Str_reserved) THEN "reserved"
        ELSE "active"

\* _determine_status(elem): status_attr is elem.get("status", "") and
\* elem_text is what _extract_text(elem) returns.
DetermineStatus(status_attr, elem_text) ==
    LET attr == Lower(status_attr)
        text == Lower(elem_text)
    IN  IF Contains(attr, Str_repeal) THEN "repealed"
        ELSE IF Contains(attr, Str_expired) THEN "expired"
        ELSE IF Contains(attr, Str_reserved) THEN "reserved"
        ELSE IF Contains(text, Str_br_repealed) \/ Contains(text, Str_repealed_dot)
        THEN "repealed"
        ELSE IF Contains(text, Str_br_expired) THEN "expired"
        ELSE "active"

(***************************************************************************)
(* The source document.  Its elements are listed in document (pre-order)   *)
(* order; depth 0 is the title element parse_file locates.  An element     *)
(* carries its tag, its identifier and status attributes, the text of its  *)
(* num sub-element ("" when absent) and the text _extract_text returns.    *)
(* The documents here are files that exist and hold a title element.       *)
(***************************************************************************)
\* ELEMENT_TO_NODE_TYPE: the tag of a structural element to its NodeType.
ELEMENT_TO_NODE_TYPE ==
    [t \in {"title", "subtitle", "chapter", "subchapter", "part", "subpart",
            "section", "subsection", "paragraph", "subparagraph", "clause"}
        |-> t]

Str_t26 == <<"/", "u", "s", "/", "u", "s", "c", "/", "t", "2", "6">>

TitleElement ==
    [tag |-> "title", identifier |-> Str_t26, num |-> <<>>,
     status_attr |-> <<>>, text |-> <<>>]

\* The elements documents are made of below the title: a chapter, an active
\* section, a section whose text holds "[Repealed]", a subsection with
\* status="Repealed", a paragraph without identifier or num, a subparagraph
\* without identifier and with a num, and a <note>, which is no structural
\* element.
ElementKinds ==
    { [tag |-> "chapter", identifier |-> Str_t26 \o <<"/", "c", "h", "1">>,
       num |-> <<"I">>, status_attr |-> <<>>, text |-> <<>>],
      [tag |-> "section", identifier |-> Str_t26 \o <<"/", "s", "1">>,
       num |-> <<"1">>, status_attr |-> <<>>, text |-> <<>>],
      [tag |-> "section", identifier |-> Str_t26 \o <<"/", "s", "2">>,
       num |-> <<"2">>, status_attr |-> <<>>,
       text |-> <<"[", "R", "e", "p", "e", "a", "l", "e", "d", "]">>],
      [tag |-> "subsection",
       identifier |-> Str_t26 \o <<"/", "s", "2", "/", "a">>,
       num |-> <<"(", "a", ")">>,
       status_attr |-> <<"R", "e", "p", "e", "a", "l", "e", "d">>,
       text |-> <<>>],
      [tag |-> "paragraph", identifier |-> <<>>, num |-> <<>>,
       status_attr |-> <<>>, text |-> <<>>],
      [tag |-> "subparagraph", identifier |-> <<>>, num |-> <<"(", "A", ")">>,
       status_attr |-> <<>>, text |-> <<>>],
      [tag |-> "note", identifier |-> <<>>, num |-> <<>>,
       status_attr |-> <<>>, text |-> <<>>] }

\* The nesting depths of n elements in pre-order: the title at depth 0, every
\* other element at most one level below the element before it.
DepthsOf(n) ==
    { d \in [1..n -> 0..(n - 1)] :
        /\ d[1] = 0
        /\ \A i \in 2..n : d[i] >= 1 /\ d[i] <= d[i - 1] + 1 }

Documents ==
    UNION { { [i \in 1..n |->
                 [depth |-> d[i], elem |-> IF i = 1 THEN TitleElement ELSE k[i]]]
              : d \in DepthsOf(n), k \in [2..n -> ElementKinds] }
            : n \in 1..MaxElems }

\* The documents of MaxNested elements made of chapters, active sections and
\* <note> elements: deep enough for a child's subtree followed by a sibling.
NestedDocuments ==
    LET kinds == { k \in ElementKinds :
                     k.tag \in {"chapter", "section", "note"} /\ k.text = <<>> }
    IN  { [i \in 1..MaxNested |->
             [depth |-> d[i], elem |-> IF i = 1 THEN TitleElement ELSE k[i]]]
          : d \in DepthsOf(MaxNested), k \in [2..MaxNested -> kinds] }

\* The direct children of element i, last first.
ChildrenOfReversed(i) ==
    LET isChild(j) ==
            /\ j > i
            /\ doc[j].depth = doc[i].depth + 1
            /\ \A m \in (i + 1)..(j - 1) : doc[m].depth > doc[i].depth
        RECURSIVE From(_)
        From(j) == IF j > Len(doc) THEN <<>>
                   ELSE IF isChild(j) THEN From(j + 1) \o <<j>>
                   ELSE From(j + 1)
    IN  From(i + 1)

\* A child loop that looks through a child that is no structural element and
\* takes that child's children in its place.
ChildrenOfThroughUnrecognized(i) ==
    LET isChild(j) ==
            /\ j > i
            /\ doc[j].depth = doc[i].depth + 1
            /\ \A m \in (i + 1)..(j - 1) : doc[m].depth > doc[i].depth
        isGrandchild(j) ==
            /\ j > i + 1
            /\ doc[j].depth = doc[i].depth + 2
            /\ \A m \in (i + 1)..(j - 1) : doc[m].depth > doc[i].depth
            /\ \E c \in (i + 1)..(j - 1) :
                   /\ isChild(c)
                   /\ doc[c].elem.tag \notin DOMAIN ELEMENT_TO_NODE_TYPE
                   /\ \A m \in (c + 1)..(j - 1) : doc[m].depth > doc[c].depth
        RECURSIVE From(_)
        From(j) == IF j > Len(doc) THEN <<>>
                   ELSE IF isChild(j) \/ isGrandchild(j) THEN <<j>> \o From(j + 1)
                   ELSE From(j + 1)
    IN  From(i + 1)

\* The direct children of element i, in document order (`for child_elem in elem`).
ChildrenOf(i) ==
    LET isChild(j) ==
            /\ j > i
            /\ doc[j].depth = doc[i].depth + 1
            /\ \A m \in (i + 1)..(j - 1) : doc[m].depth > doc[i].depth
        RECURSIVE From(_)
        From(j) == IF j > Len(doc) THEN <<>>
                   ELSE IF isChild(j) THEN <<j>> \o From(j + 1)
                   ELSE From(j + 1)
    IN  From(i + 1)

\* The parent element of element j (j > 1).
ParentOf(j) ==
    CHOOSE i \in 1..(j - 1) :
        /\ doc[i].depth = doc[j].depth - 1
        /\ \A m \in (i + 1)..(j - 1) : doc[m].depth >= doc[j].depth

(***************************************************************************)
(* USLMParser._parse_element                                               *)
(***************************************************************************)
\* The max_sections values a parser is constructed with: None, or a number.
Cutoffs == {None} \cup {Some(k) : k \in 0..MaxCutoff}

\* A cutoff test that lets one section more through.
CutoffReachedOffByOne(ms, sp) == ms # None /\ ms[1] # 0 /\ sp > ms[1]

\* `self.max_sections and self.sections_parsed >= self.max_sections`: None
\* and 0 are both false in Python.
CutoffReached(ms, sp) == ms # None /\ ms[1] # 0 /\ sp >= ms[1]

\* A node that is never told its parent.
NewNodeWithoutParent(i, parent_id) ==
    LET e == doc[i].elem
    IN  [elem |-> i,
         id |-> BuildCitationId(ELEMENT_TO_NODE_TYPE[e.tag], e.num, e.identifier),
         identifier |-> e.identifier,
         node_type |-> ELEMENT_TO_NODE_TYPE[e.tag],
         num |-> e.num,
         text |-> e.text,
         status |-> DetermineStatus(e.status_attr, e.text),
         parent_id |-> None,
         children |-> <<>>]

\* The LegalNode made from source element i (lines 153-205); elem is the
\* source element the node was made from, children is filled by the caller's
\* loop.
NewNode(i, parent_id) ==
    LET e == doc[i].elem
    IN  [elem |-> i,
         id |-> BuildCitationId(ELEMENT_TO_NODE_TYPE[e.tag], e.num, e.identifier),
         identifier |-> e.identifier,
         node_type |-> ELEMENT_TO_NODE_TYPE[e.tag],
         num |-> e.num,
         text |-> e.text,
         status |-> DetermineStatus(e.status_attr, e.text),
         parent_id |-> parent_id,
         children |-> <<>>]

\* A section counter that also counts subsections.
SectionsAfterCountingSubsections(node, sp) ==
    IF node.node_type \in {"section", "subsection"} THEN sp + 1 ELSE sp

\* sections_parsed after the node is made (lines 185-186).
SectionsAfter(node, sp) ==
    IF node.node_type = "section" THEN sp + 1 ELSE sp

\* A node counter that counts containers only.
NodesAfterContainersOnly(node, tn) ==
    IF node.node_type \in {"title", "chapter"} THEN tn + 1 ELSE tn

\* total_nodes after the node is made (line 190).
NodesAfter(node, tn) == tn + 1

\* A repealed list that never records a section.
RepealedAfterNothing(node, rs) == rs

\* repealed_sections after the node is made (lines 185-188).
RepealedAfter(node, rs) ==
    IF node.node_type = "section" /\ node.status = "repealed"
    THEN Append(rs, node.id)
    ELSE rs

Top == stack[Len(stack)]

\* The child element the loop of the innermost call is at, if any.
HasNextChild ==
    /\ via # "idle"
    /\ stack # <<>>
    /\ Top.k < Len(ChildrenOf(Top.node.elem))

NextChild == ChildrenOf(Top.node.elem)[Top.k + 1]

Advance == [stack EXCEPT ![Len(stack)].k = @ + 1]

\* The files parse_file is called on: a path where no file is, a file
\* without a title element, and the file of the document.
XmlPaths == {"missing", "no_title", "document"}

\* An error raised for every unusable file alike.
RaisedBeforeParsingAlwaysValueError(xml_path) ==
    IF xml_path = "document" THEN "no" ELSE "ValueError"

\* What parse_file raises before the root call: FileNotFoundError when the
\* file does not exist (lines 84-85), ValueError when no title element is
\* found (lines 108-109), nothing otherwise.
RaisedBeforeParsing(xml_path) ==
    IF xml_path = "missing" THEN "FileNotFoundError"
    ELSE IF xml_path = "no_title" THEN "ValueError"
    ELSE "no"

\* parser.parse_file(xml_path) on the parser instance as it is: the tests of
\* the file (lines 84-109), then the root call
\* _parse_element(title_elem, parent_path="") (line 112), which runs with the
\* parser's counters as they are; a None result raises ValueError (lines
\* 114-115).
ParseFileOn(xml_path) ==
    /\ via = "idle"
    /\ Len(returned) < MaxParses
    /\ IF RaisedBeforeParsing(xml_path) # "no"
       THEN /\ returned' = Append(returned,
                                  [raised |-> RaisedBeforeParsing(xml_path),
                                   via |-> "parse_file", xml_path |-> xml_path])
            /\ UNCHANGED <<via, stack, sections_parsed, total_nodes,
                           repealed_sections>>
       ELSE IF CutoffReached(max_sections, sections_parsed)
       THEN /\ returned' = Append(returned,
                                  [raised |-> "ValueError", via |-> "parse_file",
                                   xml_path |-> xml_path])
            /\ UNCHANGED <<via, stack, sections_parsed, total_nodes,
                           repealed_sections>>
       ELSE LET node == NewNode(1, None)
            IN  /\ via' = "parse_file"
                /\ stack' = <<[node |-> node, k |-> 0]>>
                /\ sections_parsed' = SectionsAfter(node, sections_parsed)
                /\ total_nodes' = NodesAfter(node, total_nodes)
                /\ repealed_sections' = RepealedAfter(node, repealed_sections)
                /\ UNCHANGED returned
    /\ UNCHANGED <<doc, max_sections, call, ret>>

\* parse_file on the file of the document.
ParseFile == ParseFileOn("document")

\* parse_tax_code(xml_path, max_sections) on the file of the document: a new
\* USLMParser with its counters at 0 and its list empty (lines 68-71), then
\* parse_file on it.
ParseTaxCode ==
    /\ via = "idle"
    /\ \E k \in Cutoffs :
        /\ max_sections' = k
        /\ IF CutoffReached(k, 0)
           THEN /\ returned' = <<[raised |-> "ValueError", via |-> "parse_tax_code",
                                  xml_path |-> "document"]>>
                /\ via' = "idle"
                /\ stack' = <<>>
                /\ sections_parsed' = 0
                /\ total_nodes' = 0
                /\ repealed_sections' = <<>>
           ELSE LET node == NewNode(1, None)
                IN  /\ returned' = <<>>
                    /\ via' = "parse_tax_code"
                    /\ stack' = <<[node |-> node, k |-> 0]>>
                    /\ sections_parsed' = SectionsAfter(node, 0)
                    /\ total_nodes' = NodesAfter(node, 0)
                    /\ repealed_sections' = RepealedAfter(node, <<>>)
    /\ UNCHANGED <<doc, call, ret>>

\* parse_file on a path where no file is or on a file without a title
\* element.
ParseUnusableFile == \E xml_path \in XmlPaths \ {"document"} : ParseFileOn(xml_path)

\* The loop at line 208 meets a child that is no structural element.
SkipChild ==
    /\ HasNextChild
    /\ doc[NextChild].elem.tag \notin DOMAIN ELEMENT_TO_NODE_TYPE
    /\ stack' = Advance
    /\ UNCHANGED <<doc, max_sections, sections_parsed, total_nodes,
                   repealed_sections, via, returned, call, ret>>

\* The call for a structural child finds the cutoff reached and returns None
\* (lines 143-144); the caller appends nothing.
CutChild ==
    /\ HasNextChild
    /\ doc[NextChild].elem.tag \in DOMAIN ELEMENT_TO_NODE_TYPE
    /\ CutoffReached(max_sections, sections_parsed)
    /\ stack' = Advance
    /\ UNCHANGED <<doc, max_sections, sections_parsed, total_nodes,
                   repealed_sections, via, returned, call, ret>>

\* The call for a structural child makes its node (lines 146-205) and enters
\* its own loop over children.
EnterChild ==
    /\ HasNextChild
    /\ doc[NextChild].elem.tag \in DOMAIN ELEMENT_TO_NODE_TYPE
    /\ ~CutoffReached(max_sections, sections_parsed)
    /\ LET node == NewNode(NextChild, Some(Top.node.id))
       IN  /\ stack' = Append(Advance, [node |-> node, k |-> 0])
           /\ sections_parsed' = SectionsAfter(node, sections_parsed)
           /\ total_nodes' = NodesAfter(node, total_nodes)
           /\ repealed_sections' = RepealedAfter(node, repealed_sections)
    /\ UNCHANGED <<doc, max_sections, via, returned, call, ret>>

\* A child's call returns its node (line 219) and the caller appends it to
\* its node's children (lines 216-217).
ReturnChild ==
    /\ via # "idle"
    /\ Len(stack) > 1
    /\ Top.k = Len(ChildrenOf(Top.node.elem))
    /\ stack' = [SubSeq(stack, 1, Len(stack) - 1)
                    EXCEPT ![Len(stack) - 1].node.children = Append(@, Top.node)]
    /\ UNCHANGED <<doc, max_sections, sections_parsed, total_nodes,
                   repealed_sections, via, returned, call, ret>>

\* The root call returns and parse_file returns the ParsedTaxCode (lines
\* 117-123).
ReturnRoot ==
    /\ via # "idle"
    /\ Len(stack) = 1
    /\ Top.k = Len(ChildrenOf(Top.node.elem))
    /\ returned' = Append(returned,
                          [raised |-> "no",
                           via |-> via,
                           xml_path |-> "document",
                           root |-> Top.node,
                           total_sections |-> sections_parsed,
                           total_nodes |-> total_nodes,
                           repealed_sections |-> repealed_sections])
    /\ stack' = <<>>
    /\ via' = "idle"
    /\ UNCHANGED <<doc, max_sections, sections_parsed, total_nodes,
                   repealed_sections, call, ret>>

\* USLMParser(max_sections) just constructed (lines 68-71), for a document.
Init ==
    /\ doc \in Documents
    /\ max_sections \in Cutoffs
    /\ sections_parsed = 0
    /\ total_nodes = 0
    /\ repealed_sections = <<>>
    /\ stack = <<>>
    /\ via = "idle"
    /\ returned = <<>>
    /\ call = [fn |-> "none"]
    /\ ret = None

Next ==
    \/ ParseFile
    \/ ParseTaxCode
    \/ SkipChild
    \/ CutChild
    \/ EnterChild
    \/ ReturnChild
    \/ ReturnRoot

Spec == Init /\ [][Next]_vars

\* One parser on the nested documents, constructed without a cutoff or with
\* cutoff 1, and its parse_file called on usable and unusable files.
InitNested ==
    /\ doc \in NestedDocuments
    /\ max_sections \in {None, Some(1)}
    /\ sections_parsed = 0
    /\ total_nodes = 0
    /\ repealed_sections = <<>>
    /\ stack = <<>>
    /\ via = "idle"
    /\ returned = <<>>
    /\ call = [fn |-> "none"]
    /\ ret = None

NextNested ==
    \/ ParseFile
    \/ ParseUnusableFile
    \/ SkipChild
    \/ CutChild
    \/ EnterChild
    \/ ReturnChild
    \/ ReturnRoot

SpecNested == InitNested /\ [][NextNested]_vars

(***************************************************************************)
(* Trees of LegalNode.                                                     *)
(***************************************************************************)
\* LegalNode.get_all_sections: the section-type nodes of the tree, in
\* pre-order.
RECURSIVE GetAllSections(_)
GetAllSections(node) ==
    LET RECURSIVE OfChildren(_)
        OfChildren(cs) ==
            IF cs = <<>> THEN <<>>
            ELSE GetAllSections(Head(cs)) \o OfChildren(Tail(cs))
    IN  (IF node.node_type = "section" THEN <<node>> ELSE <<>>)
            \o OfChildren(node.children)

\* The number of nodes reachable from node through children, node included.
RECURSIVE CountNodes(_)
CountNodes(node) ==
    LET RECURSIVE OfChildren(_)
        OfChildren(cs) ==
            IF cs = <<>> THEN 0
            ELSE CountNodes(Head(cs)) + OfChildren(Tail(cs))
    IN  1 + OfChildren(node.children)

\* The nodes reachable from node through children, node included.
RECURSIVE TreeNodes(_)
TreeNodes(node) ==
    {node} \cup UNION { TreeNodes(node.children[i]) : i \in 1..Len(node.children) }

\* A flattening that lists a node after its descendants.
RECURSIVE FlattenNodesChildrenFirst(_)
FlattenNodesChildrenFirst(node) ==
    LET RECURSIVE OfChildren(_)
        OfChildren(cs) ==
            IF cs = <<>> THEN <<>>
            ELSE FlattenNodesChildrenFirst(Head(cs)) \o OfChildren(Tail(cs))
    IN  OfChildren(node.children) \o <<node>>

\* flatten_nodes(node): nodes = [node], then nodes.extend(flatten_nodes(child))
\* for each child in node.children.
RECURSIVE FlattenNodes(_)
FlattenNodes(node) ==
    LET RECURSIVE OfChildren(_)
        OfChildren(cs) ==
            IF cs = <<>> THEN <<>>
            ELSE FlattenNodes(Head(cs)) \o OfChildren(Tail(cs))
    IN  <<node>> \o OfChildren(node.children)

\* The ParsedTaxCode values returned so far on this parser instance.
Results == { returned[i] : i \in { j \in 1..Len(returned) : returned[j].raised = "no" } }

\* Every node made so far and still held: in a returned tree or in a call in
\* progress.
AllNodes ==
    UNION ({ TreeNodes(r.root) : r \in Results }
           \cup { TreeNodes(stack[i].node) : i \in 1..Len(stack) })

\* The source elements an uncut traversal calls _parse_element on: those whose
\* ancestors all have structural tags (lines 208-215).
RECURSIVE Encountered(_)
Encountered(j) ==
    \/ j = 1
    \/ /\ doc[ParentOf(j)].elem.tag \in DOMAIN ELEMENT_TO_NODE_TYPE
       /\ Encountered(ParentOf(j))

\* The source elements that become nodes without a cutoff.
Materializable(j) ==
    Encountered(j) /\ doc[j].elem.tag \in DOMAIN ELEMENT_TO_NODE_TYPE

\* The position of section element j among the section elements met in
\* pre-order of the source.
SectionRank(j) ==
    Cardinality({ i \in 1..j : Materializable(i) /\ doc[i].elem.tag = "section" })

(***************************************************************************)
(* Claims about the document tree builder (specification Spec).            *)
(***************************************************************************)
\* C1: every ParsedTaxCode that parse_tax_code returns, with or without a
\* cutoff, has total_nodes equal to the number of nodes reachable from root
\* through children, root included.
C1_TotalNodesIsTreeSize ==
    \A r \in Results :
        r.via = "parse_tax_code" => r.total_nodes = CountNodes(r.root)

\* A parse_tax_code result with more than the root in its tree, under a
\* cutoff that kept a structural element of the source out of it.
C1_Witness ==
    \E r \in Results :
        /\ r.via = "parse_tax_code"
        /\ max_sections = Some(1)
        /\ \A j \in 1..Len(doc) : Materializable(j)
        /\ r.total_nodes >= 2
        /\ r.total_nodes < Len(doc)

\* C2: every ParsedTaxCode that parse_tax_code returns, with or without a
\* cutoff, has total_sections equal to the number of section-type nodes of
\* the tree; subsections, paragraphs and containers are not counted.
C2_TotalSectionsIsSectionCount ==
    \A r \in Results :
        r.via = "parse_tax_code" =>
            /\ r.total_sections = Len(GetAllSections(r.root))
            /\ r.total_sections =
                   Cardinality({ n \in TreeNodes(r.root) : n.node_type = "section" })

\* A parse_tax_code result whose tree holds a section and a subsection.
C2_Witness ==
    \E r \in Results :
        /\ r.via = "parse_tax_code"
        /\ r.total_sections = 1
        /\ \E n \in TreeNodes(r.root) : n.node_type = "subsection"

\* C3: with a cutoff k >= 1 the result has total_sections <= k, and no section
\* node of the tree comes from a section element beyond the k-th met in
\* pre-order of the source.
C3_CutoffBoundsSections ==
    \A r \in Results :
        (max_sections # None /\ max_sections[1] >= 1) =>
            /\ r.total_sections <= max_sections[1]
            /\ \A n \in TreeNodes(r.root) :
                   n.node_type = "section" => SectionRank(n.elem) <= max_sections[1]

\* A result under cutoff 1 for a document with two sections to meet.
C3_Witness ==
    \E r \in Results :
        /\ max_sections = Some(1)
        /\ r.total_sections = 1
        /\ \E j \in 1..Len(doc) :
               Materializable(j) /\ doc[j].elem.tag = "section" /\ SectionRank(j) = 2

\* C4: every supplied cutoff acts as a cutoff, 0 included: a parse with cutoff
\* 0 materializes no section-type node (total_sections <= 0).
C4_CutoffZeroIsACutoff ==
    \A r \in Results :
        max_sections = Some(0) =>
            /\ r.total_sections <= 0
            /\ GetAllSections(r.root) = <<>>

\* C5: two parse_file calls in a row on one parser instance and the same file
\* return the same tree, total_nodes, total_sections and repealed_sections.
C5_ParsesAreIndependent ==
    \A i \in 1..(Len(returned) - 1) :
        (/\ returned[i].via = "parse_file" /\ returned[i + 1].via = "parse_file"
         /\ returned[i].xml_path = "document"
         /\ returned[i + 1].xml_path = "document")
            => returned[i + 1] = returned[i]

StatusWords ==
    { <<"R", "e", "p", "e", "a", "l", "e", "d">>,
      <<"e", "x", "p", "i", "r", "e", "d">>,
      <<"R", "E", "S", "E", "R", "V", "E", "D">>,
      <<"a", "c", "t", "i", "v", "e">> }

\* Pieces of an element's text.
StatusTextPieces ==
    { <<"[", "R", "e", "p", "e", "a", "l", "e", "d", "]">>,
      <<"R", "e", "p", "e", "a", "l", "e", "d", ".">>,
      <<"[", "E", "x", "p", "i", "r", "e", "d", "]">>,
      <<"r", "e", "p", "e", "a", "l", "e", "d">>,
      <<"t", "a", "x">> }

\* "", one piece, or two pieces with a space between them.
UpToTwoOf(pieces) ==
    {<<>>} \cup pieces \cup { a \o <<" ">> \o b : a \in pieces, b \in pieces }

InitStatus ==
    /\ doc = <<>>
    /\ max_sections = None
    /\ sections_parsed = 0
    /\ total_nodes = 0
    /\ repealed_sections = <<>>
    /\ stack = <<>>
    /\ via = "idle"
    /\ returned = <<>>
    /\ \E a \in UpToTwoOf(StatusWords), t \in UpToTwoOf(StatusTextPieces) :
           call = [fn |-> "_determine_status", status_attr |-> a, text |-> t]
    /\ ret = None

\* status = self._determine_status(elem)
DetermineStatusCall ==
    /\ call.fn = "_determine_status"
    /\ ret = None
    /\ ret' = Some(DetermineStatus(call.status_attr, call.text))
    /\ UNCHANGED <<parserVars, call>>

NextStatus == DetermineStatusCall

SpecStatus == InitStatus /\ [][NextStatus]_vars

\* C9: _determine_status returns the status of the first test that matches,
\* in this order: the status attribute contains "repeal" -> repealed,
\* "expired" -> expired, "reserved" -> reserved; the text contains "[repealed"
\* or "repealed." -> repealed, "[expired" -> expired; otherwise active.  The
\* text is consulted only when no test on the attribute matched.
C9_StatusByFirstMatch ==
    (call.fn = "_determine_status" /\ ret # None) =>
        LET a == Lower(call.status_attr)
            t == Lower(call.text)
            attrRepeal == Contains(a, Str_repeal)
            attrExpired == Contains(a, Str_expired)
            attrReserved == Contains(a, Str_reserved)
            noAttr == ~attrRepeal /\ ~attrExpired /\ ~attrReserved
            textRepealed == Contains(t, Str_br_repealed) \/ Contains(t, Str_repealed_dot)
            textExpired == Contains(t, Str_br_expired)
        IN  /\ ret[1] \in {"repealed", "expired", "reserved", "active"}
            /\ attrRepeal => ret[1] = "repealed"
            /\ (~attrRepeal /\ attrExpired) => ret[1] = "expired"
            /\ (~attrRepeal /\ ~attrExpired /\ attrReserved) => ret[1] = "reserved"
            /\ (noAttr /\ textRepealed) => ret[1] = "repealed"
            /\ (noAttr /\ ~textRepealed /\ textExpired) => ret[1] = "expired"
            /\ (noAttr /\ ~textRepealed /\ ~textExpired) => ret[1] = "active"

\* An element with status "expired" and "[Repealed]" in its text, classified
\* expired.
C9_Witness ==
    /\ call.fn = "_determine_status"
    /\ call.status_attr = <<"e", "x", "p", "i", "r", "e", "d">>
    /\ Contains(call.text, <<"[", "R", "e", "p", "e", "a", "l", "e", "d", "]">>)
    /\ ret = Some("expired")

(***************************************************************************)
(* extract_references: the regular expressions of                          *)
(* SECTION_REFERENCE_PATTERNS, matched with re.IGNORECASE.  An offset p is *)
(* 0-based as in Python: the character at offset p is t[p + 1].            *)
(***************************************************************************)
\* [a-z0-9] and [A-Za-z] under re.IGNORECASE.
Letters == LowerLetters \cup UpperLetters
AlphaNum == Letters \cup Digits

\* \b at offset p: exactly one of the characters around p is a word character.
AtWordBoundary(t, p) ==
    (p > 0 /\ t[p] \in WordChars) # (p < Len(t) /\ t[p + 1] \in WordChars)

\* A literal, lowercase in the pattern, matched at offset p ignoring case.
LitAt(t, p, lit) ==
    /\ p + Len(lit) <= Len(t)
    /\ Lower(Slice(t, p, p + Len(lit))) = lit

\* (?:\([a-z0-9]+\))* at offset p: the offset after the last group taken.
RECURSIVE ParenGroupsEnd(_, _)
ParenGroupsEnd(t, p) ==
    IF p < Len(t) /\ t[p + 1] = "("
    THEN LET n == LeadingRun(SliceFrom(t, p + 1), AlphaNum)
         IN  IF n >= 1 /\ p + 1 + n < Len(t) /\ t[p + 1 + n + 1] = ")"
             THEN ParenGroupsEnd(t, p + n + 2)
             ELSE p
    ELSE p

\* \d+[A-Za-z]? at offset p, followed by (?:\([a-z0-9]+\))* when parens is
\* TRUE: the offset after the match, -1 when there is no digit at p.
DesignatorEnd(t, p, parens) ==
    LET d == LeadingRun(SliceFrom(t, p), Digits)
        afterDigits == p + d
        afterLetter ==
            IF afterDigits < Len(t) /\ t[afterDigits + 1] \in Letters
            THEN afterDigits + 1 ELSE afterDigits
    IN  IF d = 0 THEN -1
        ELSE IF parens THEN ParenGroupsEnd(t, afterLetter)
        ELSE afterLetter

\* The parts a pattern is made of.
B == [kind |-> "b", s |-> <<>>]
Lit(s) == [kind |-> "lit", s |-> s]
Opt(s) == [kind |-> "opt", s |-> s]
SpacePlus == [kind |-> "s+", s |-> <<>>]
SpaceStar == [kind |-> "s*", s |-> <<>>]
AndOr == [kind |-> "andor", s |-> <<>>]
\* (\d+[A-Za-z]?(?:\([a-z0-9]+\))*), a captured group
Designator == [kind |-> "D", s |-> <<>>]
\* (\d+[A-Za-z]?), a captured group
ShortDesignator == [kind |-> "D0", s |-> <<>>]

NoMatch == [ok |-> FALSE, end |-> -1, groups |-> <<>>]

\* The match of the parts `atoms` at offset p, greedy as the re module is.  An
\* optional literal is tried first and given up when the rest then fails.  A
\* run of whitespace or of digits is taken whole: what follows it in every
\* pattern cannot start with a character of the run, so a shorter run never
\* matches where the whole run fails.
RECURSIVE MatchAtoms(_, _, _, _)
MatchAtoms(atoms, t, p, groups) ==
    IF atoms = <<>> THEN [ok |-> TRUE, end |-> p, groups |-> groups]
    ELSE LET a == Head(atoms)
             rest == Tail(atoms)
             spaces == LeadingRun(SliceFrom(t, p), Whitespace)
         IN  CASE a.kind = "b" ->
                    IF AtWordBoundary(t, p) THEN MatchAtoms(rest, t, p, groups)
                    ELSE NoMatch
               [] a.kind = "lit" ->
                    IF LitAt(t, p, a.s)
                    THEN MatchAtoms(rest, t, p + Len(a.s), groups)
                    ELSE NoMatch
               [] a.kind = "opt" ->
                    LET taken == MatchAtoms(rest, t, p + Len(a.s), groups)
                    IN  IF LitAt(t, p, a.s) /\ taken.ok THEN taken
                        ELSE MatchAtoms(rest, t, p, groups)
               [] a.kind = "s+" ->
                    IF spaces >= 1 THEN MatchAtoms(rest, t, p + spaces, groups)
                    ELSE NoMatch
               [] a.kind = "s*" -> MatchAtoms(rest, t, p + spaces, groups)
               [] a.kind = "andor" ->
                    IF LitAt(t, p, <<"a", "n", "d">>)
                    THEN MatchAtoms(rest, t, p + 3, groups)
                    ELSE IF LitAt(t, p, <<"o", "r">>)
                    THEN MatchAtoms(rest, t, p + 2, groups)
                    ELSE NoMatch
               [] a.kind \in {"D", "D0"} ->
                    LET e == DesignatorEnd(t, p, a.kind = "D")
                    IN  IF e < 0 THEN NoMatch
                        ELSE MatchAtoms(rest, t, e, Append(groups, Slice(t, p, e)))

\* re.finditer(pattern, text, re.IGNORECASE) from offset pos on: the matches
\* left to right, none overlapping another.
RECURSIVE FindIter(_, _, _)
FindIter(atoms, t, pos) ==
    LET starts == { q \in pos..Len(t) : MatchAtoms(atoms, t, q, <<>>).ok }
    IN  IF starts = {} THEN <<>>
        ELSE LET start == CHOOSE q \in starts : \A r \in starts : q <= r
                 m == MatchAtoms(atoms, t, start, <<>>)
             IN  <<[start |-> start, end |-> m.end, groups |-> m.groups]>>
                    \o FindIter(atoms, t, IF m.end = start THEN start + 1 ELSE m.end)

Str_section == <<"s", "e", "c", "t", "i", "o", "n">>
Str_as_defined_in == <<"a", "s", " ", "d", "e", "f", "i", "n", "e", "d", " ", "i", "n", " ">>
Str_subject_to == <<"s", "u", "b", "j", "e", "c", "t", " ", "t", "o", " ">>
Str_the_provisions_of ==
    <<"t", "h", "e", " ", "p", "r", "o", "v", "i", "s", "i", "o", "n", "s", " ", "o", "f", " ">>
Str_provided_in == <<"p", "r", "o", "v", "i", "d", "e", "d", " ", "i", "n", " ">>
Str_except_as == <<"e", "x", "c", "e", "p", "t", " ", "a", "s", " ">>
Str_under == <<"u", "n", "d", "e", "r", " ">>
Str_see == <<"s", "e", "e", " ">>

\* SECTION_REFERENCE_PATTERNS, in the order of the list.
SECTION_REFERENCE_PATTERNS ==
    << [atoms |-> <<B, Lit(Str_section), SpacePlus, Designator>>,
        ref_type |-> "general"],
       [atoms |-> <<B, Lit(Str_section), Opt(<<"s">>), SpacePlus, ShortDesignator,
                    SpacePlus, AndOr, SpacePlus, ShortDesignator>>,
        ref_type |-> "general"],
       [atoms |-> <<B, Lit(<<"s", "e", "c", ".">>), SpaceStar, Designator>>,
        ref_type |-> "general"],
       [atoms |-> <<Lit(Str_as_defined_in \o Str_section), SpacePlus, Designator>>,
        ref_type |-> "definition"],
       [atoms |-> <<Lit(Str_subject_to), Opt(Str_the_provisions_of),
                    Lit(Str_section), SpacePlus, Designator>>,
        ref_type |-> "subject_to"],
       [atoms |-> <<Lit(Str_except_as \o Str_provided_in \o Str_section),
                    SpacePlus, Designator>>,
        ref_type |-> "exception"],
       [atoms |-> <<Lit(Str_under \o Str_section), SpacePlus, Designator>>,
        ref_type |-> "general"],
       [atoms |-> <<Lit(Str_provided_in \o Str_section), SpacePlus, Designator>>,
        ref_type |-> "general"],
       [atoms |-> <<Lit(Str_see \o Str_section), SpacePlus, Designator>>,
        ref_type |-> "general"] >>

\* The window of context on each side of a match (lines 257-258).
ContextWindow == 30

Max(a, b) == IF a >= b THEN a ELSE b
Min(a, b) == IF a <= b THEN a ELSE b

\* The Reference made for a captured section of match m (lines 257-265).
MakeReference(t, m, section, ref_type) ==
    LET start == Max(0, m.start - ContextWindow)
        end == Min(Len(t), m.end + ContextWindow)
        context == Strip(Slice(t, start, end), Whitespace)
    IN  [target_section |-> section,
         context |-> <<".", ".", ".">> \o context \o <<".", ".", ".">>,
         reference_type |-> ref_type]

\* A test that accepts a captured section whether or not it was seen before.
AcceptAnySection(section, seen) == section # <<>>

\* `if section and section not in seen` (line 254).
Accept(section, seen) == section # <<>> /\ section \notin seen

\* `for pattern, ref_type in SECTION_REFERENCE_PATTERNS` (line 249): the
\* indices of the patterns in the order they are tried.
PatternOrder == <<1, 2, 3, 4, 5, 6, 7, 8, 9>>

\* extract_references(text): acc is [references, seen].
ExtractReferences(t) ==
    LET RECURSIVE OverGroups(_, _, _, _)
        OverGroups(gs, m, ref_type, acc) ==
            IF gs = <<>> THEN acc
            ELSE OverGroups(Tail(gs), m, ref_type,
                     IF Accept(Head(gs), acc.seen)
                     THEN [references |->
                               Append(acc.references,
                                      MakeReference(t, m, Head(gs), ref_type)),
                           seen |-> acc.seen \cup {Head(gs)}]
                     ELSE acc)
        RECURSIVE OverMatches(_, _, _)
        OverMatches(ms, ref_type, acc) ==
            IF ms = <<>> THEN acc
            ELSE OverMatches(Tail(ms), ref_type,
                             OverGroups(Head(ms).groups, Head(ms), ref_type, acc))
        RECURSIVE OverPatterns(_, _)
        OverPatterns(order, acc) ==
            IF order = <<>> THEN acc
            ELSE LET pat == SECTION_REFERENCE_PATTERNS[Head(order)]
                 IN  OverPatterns(Tail(order),
                                  OverMatches(FindIter(pat.atoms, t, 0),
                                              pat.ref_type, acc))
    IN  IF t = <<>> THEN <<>>
        ELSE OverPatterns(PatternOrder, [references |-> <<>>, seen |-> {}]).references

(***************************************************************************)
(* The cross-reference extractor on its own (specification SpecRefs): a    *)
(* text made of phrases is scanned.                                        *)
(***************************************************************************)
Str_section_1 == Str_section \o <<" ", "1">>

\* The phrases texts are made of: plain, specific and paired references, one
\* with an upper-case designator, and "subsection 3", which is no reference.
Phrases ==
    { Str_section_1,
      Str_as_defined_in \o Str_section_1,
      <<"S", "u", "b", "j", "e", "c", "t", " ", "t", "o", " ">>
          \o Str_the_provisions_of \o Str_section \o <<" ", "2">>,
      Str_except_as \o Str_provided_in \o Str_section
          \o <<" ", "2", "(", "a", ")">>,
      <<"s", "e", "c", "t", "i", "o", "n", "s", " ", "1", " ", "a", "n", "d", " ", "2">>,
      <<"S", "e", "c", ".", " ", "1", "A">>,
      <<"s", "u", "b">> \o Str_section \o <<" ", "3">> }

\* The texts of at most n phrases, a space between two phrases.
RECURSIVE TextsOf(_)
TextsOf(n) ==
    IF n = 0 THEN {<<>>}
    ELSE LET shorter == TextsOf(n - 1)
         IN  shorter \cup Phrases
                \cup { t \o <<" ">> \o ph : t \in shorter \ {<<>>}, ph \in Phrases }

InitRefs ==
    /\ doc = <<>>
    /\ max_sections = None
    /\ sections_parsed = 0
    /\ total_nodes = 0
    /\ repealed_sections = <<>>
    /\ stack = <<>>
    /\ via = "idle"
    /\ returned = <<>>
    /\ \E t \in TextsOf(MaxPhrases) :
           call = [fn |-> "extract_references", text |-> t]
    /\ ret = None

\* references = extract_references(text)
ExtractReferencesCall ==
    /\ call.fn = "extract_references"
    /\ ret = None
    /\ ret' = Some(ExtractReferences(call.text))
    /\ UNCHANGED <<parserVars, call>>

NextRefs == ExtractReferencesCall

SpecRefs == InitRefs /\ [][NextRefs]_vars

\* The designators the pattern of index i captures somewhere in text t.
CapturedBy(i, t) ==
    LET ms == FindIter(SECTION_REFERENCE_PATTERNS[i].atoms, t, 0)
    IN  UNION { { ms[k].groups[g] : g \in 1..Len(ms[k].groups) } : k \in 1..Len(ms) }

\* The number of captures of designator x by the pattern of index i in text t.
CapturesOf(i, t, x) ==
    LET ms == FindIter(SECTION_REFERENCE_PATTERNS[i].atoms, t, 0)
    IN  Cardinality({ kg \in (1..Len(ms)) \X (1..2) :
                        /\ kg[2] <= Len(ms[kg[1]].groups)
                        /\ ms[kg[1]].groups[kg[2]] = x })

PatternIndices == 1..Len(SECTION_REFERENCE_PATTERNS)

\* C7: within one call of extract_references no two references returned have
\* the same target_section, and every designator a pattern captures in the
\* text is the target of exactly one reference.
C7_OneReferencePerDesignator ==
    (call.fn = "extract_references" /\ ret # None) =>
        LET refs == ret[1]
        IN  /\ \A i, j \in 1..Len(refs) :
                   i # j => refs[i].target_section # refs[j].target_section
            /\ \A p \in PatternIndices :
                   \A x \in CapturedBy(p, call.text) :
                       \E i \in 1..Len(refs) : refs[i].target_section = x

\* A text in which one pattern captures a designator twice and another
\* pattern captures it too, with one reference returned for it.
C7_Witness ==
    /\ call.fn = "extract_references"
    /\ ret # None
    /\ \E x \in CapturedBy(1, call.text) :
           /\ CapturesOf(1, call.text, x) >= 2
           /\ x \in CapturedBy(2, call.text)
           /\ Cardinality({ i \in 1..Len(ret[1]) : ret[1][i].target_section = x }) = 1

\* C8: when a designator is captured by a specific phrasing pattern
\* (definition, subject_to, exception) as well as by a plain general pattern,
\* the reference kept for it carries a specific type, not general.
C8_SpecificTypeWins ==
    (call.fn = "extract_references" /\ ret # None) =>
        \A i \in 1..Len(ret[1]) :
            LET x == ret[1][i].target_section
                specific ==
                    { SECTION_REFERENCE_PATTERNS[p].ref_type :
                        p \in { q \in PatternIndices :
                                  /\ SECTION_REFERENCE_PATTERNS[q].ref_type # "general"
                                  /\ x \in CapturedBy(q, call.text) } }
            IN  specific # {} => ret[1][i].reference_type \in specific

(***************************************************************************)
(* The citation resolver on its own (specification SpecCite): a node type, *)
(* a declared number and an identifier path are resolved to a citation.    *)
(***************************************************************************)
\* The segments identifier paths are made of after /us/usc/t26: a subtitle, a
\* chapter, a subchapter, a part, a subpart, a section, and the designators
\* (a), (2) and (s) of subsections and paragraphs.
PathSegments ==
    { <<"s", "t", "A">>, <<"c", "h", "1">>, <<"s", "c", "h", "B">>,
      <<"p", "t", "2">>, <<"s", "p", "t", "C">>, <<"s", "1">>,
      <<"a">>, <<"2">>, <<"s">> }

\* The paths of at most n segments.
RECURSIVE SegmentPaths(_)
SegmentPaths(n) ==
    IF n = 0 THEN {<<>>}
    ELSE LET shorter == SegmentPaths(n - 1)
         IN  shorter \cup { Append(q, seg) : q \in shorter, seg \in PathSegments }

\* "/" + "/".join(segments), after the prefix given.
RECURSIVE PathText(_, _)
PathText(prefix, segments) ==
    IF segments = <<>> THEN prefix
    ELSE PathText(prefix \o <<"/">> \o Head(segments), Tail(segments))

\* The identifier attributes resolved: absent, the well-formed paths, a path
\* of another jurisdiction and a path without a leading /us/usc.
Identifiers ==
    {<<>>}
        \cup { PathText(Str_t26, q) : q \in SegmentPaths(MaxSegments) }
        \cup { <<"/", "u", "k", "/", "u", "s", "c", "/", "t", "2", "6", "/", "s", "1">>,
               <<"t", "2", "6", "/", "s", "1">> }

\* The declared numbers resolved: none, a bare number, and numbers with a
\* "Sec." or "Sec" prefix.
DeclaredNums ==
    { <<>>, <<"1">>, <<"S", "e", "c", ".", " ", "1">>, <<"S", "e", "c", " ", "7">> }

InitCite ==
    /\ doc = <<>>
    /\ max_sections = None
    /\ sections_parsed = 0
    /\ total_nodes = 0
    /\ repealed_sections = <<>>
    /\ stack = <<>>
    /\ via = "idle"
    /\ returned = <<>>
    /\ \E nt \in {"section", "subsection"}, n \in DeclaredNums, ident \in Identifiers :
           call = [fn |-> "_build_citation_id", node_type |-> nt,
                   num |-> n, identifier |-> ident]
    /\ ret = None

\* node_id = self._build_citation_id(node_type, num, identifier)
BuildCitationIdCall ==
    /\ call.fn = "_build_citation_id"
    /\ ret = None
    /\ ret' = Some(BuildCitationId(call.node_type, call.num, call.identifier))
    /\ UNCHANGED <<parserVars, call>>

NextCite == BuildCitationIdCall

SpecCite == InitCite /\ [][NextCite]_vars

\* The segments of an identifier path, and whether the path is well-formed:
\* /us/usc/<title>/...
PathParts(ident) == Split(Strip(ident, {"/"}), "/")
WellFormed(ident) ==
    /\ Len(PathParts(ident)) >= 4
    /\ PathParts(ident)[1] = Str_us
    /\ PathParts(ident)[2] = Str_usc
SegmentsAfterTitle(ident) == SubSeq(PathParts(ident), 4, Len(PathParts(ident)))

\* A segment that marks a subtitle, chapter, subchapter, part or subpart.
IsStructuralMarker(part) ==
    \/ StartsWith(part, <<"s", "t">>)
    \/ StartsWith(part, <<"c", "h">>)
    \/ StartsWith(part, <<"s", "c", "h">>)
    \/ StartsWith(part, <<"p", "t">>)
    \/ StartsWith(part, <<"s", "p", "t">>)

\* A segment that marks a section: prefix s, and no structural marker.
IsSectionMarker(part) == StartsWith(part, <<"s">>) /\ ~IsStructuralMarker(part)

\* The segments of a sequence that are no structural markers, in order.
RECURSIVE WithoutStructuralMarkers(_)
WithoutStructuralMarkers(parts) ==
    IF parts = <<>> THEN <<>>
    ELSE (IF IsStructuralMarker(Head(parts)) THEN <<>> ELSE <<Head(parts)>>)
            \o WithoutStructuralMarkers(Tail(parts))

\* C11: in the citation of a well-formed identifier path with a section
\* marker, every segment that marks a subtitle, chapter, subchapter, part or
\* subpart is skipped and contributes no characters: the citation is that of
\* the path without those segments (/us/usc/t26/stA/ch1/s1 gives "26 USC 1").
C11_StructuralMarkersAreSkipped ==
    (/\ call.fn = "_build_citation_id"
     /\ ret # None
     /\ WellFormed(call.identifier)
     /\ \E i \in 1..Len(SegmentsAfterTitle(call.identifier)) :
            IsSectionMarker(SegmentsAfterTitle(call.identifier)[i]))
        => LET kept == WithoutStructuralMarkers(SegmentsAfterTitle(call.identifier))
           IN  ret[1] = BuildCitationId(call.node_type, call.num,
                                        PathText(Str_t26, kept))

\* The tokens "(" + segment + ")" of the segments of a sequence, joined.
RECURSIVE InParentheses(_)
InParentheses(parts) ==
    IF parts = <<>> THEN <<>>
    ELSE <<"(">> \o Head(parts) \o <<")">> \o InParentheses(Tail(parts))

\* C12: for a well-formed identifier path whose first segment after the title
\* is a section marker (and which has no structural marker), the citation is
\* "26 USC ", the remainder of the section marker, and every later segment in
\* parentheses, in path order (/us/usc/t26/s1/a gives "26 USC 1(a)").
C12_LaterSegmentsInParentheses ==
    (/\ call.fn = "_build_citation_id"
     /\ ret # None
     /\ WellFormed(call.identifier)
     /\ IsSectionMarker(SegmentsAfterTitle(call.identifier)[1])
     /\ \A i \in 1..Len(SegmentsAfterTitle(call.identifier)) :
            ~IsStructuralMarker(SegmentsAfterTitle(call.identifier)[i]))
        => LET segs == SegmentsAfterTitle(call.identifier)
           IN  ret[1] = Str_26USC \o SliceFrom(Head(segs), 1)
                                  \o InParentheses(Tail(segs))

\* C14: when the identifier path is present and yields no section marker, the
\* citation is "26 USC " and the declared number with a leading "Sec." removed
\* if there is a declared number, and "26 USC " and the raw identifier path if
\* there is none.
C14_FallbackWithoutSectionMarker ==
    (/\ call.fn = "_build_citation_id"
     /\ ret # None
     /\ call.identifier # <<>>
     /\ \/ ~WellFormed(call.identifier)
        \/ \A i \in 1..Len(SegmentsAfterTitle(call.identifier)) :
               ~IsSectionMarker(SegmentsAfterTitle(call.identifier)[i]))
        => ret[1] = Str_26USC \o (IF call.num # <<>> THEN CleanNum(call.num)
                                  ELSE call.identifier)

(***************************************************************************)
(* Further claims about the document tree builder (specification Spec).    *)
(***************************************************************************)
\* C13: a node made from an element without an identifier has the citation
\* "26 USC " and its declared number when it has one, and "26 USC unknown"
\* when it has none; the parse goes on and the node is made: without a cutoff
\* every structural element without an identifier that the traversal meets
\* has its node in the returned tree.
C13_AbsentIdentifierFallsBack ==
    /\ \A n \in AllNodes :
           n.identifier = <<>>
               => n.id = Str_26USC \o (IF n.num # <<>> THEN n.num ELSE Str_unknown)
    /\ \A r \in Results :
           max_sections = None
               => \A j \in 1..Len(doc) :
                      (Materializable(j) /\ doc[j].elem.identifier = <<>>)
                          => \E n \in TreeNodes(r.root) : n.elem = j

\* A returned tree that holds a node "26 USC (A)" and a node "26 USC unknown",
\* both made from elements without an identifier, the second after the first.
C13_Witness ==
    \E r \in Results :
        \E n, m \in TreeNodes(r.root) :
            /\ n.identifier = <<>> /\ n.num = <<"(", "A", ")">>
            /\ n.id = Str_26USC \o <<"(", "A", ")">>
            /\ m.identifier = <<>> /\ m.num = <<>>
            /\ m.id = Str_26USC \o Str_unknown
            /\ m.elem > n.elem

\* C17: parse_file returns no ParsedTaxCode for an unusable input: it raises
\* FileNotFoundError when the file does not exist and ValueError when no
\* title element is found or the root call returns nothing; what it raises
\* carries no tree, no call is left in progress, and the call leaves the
\* parser's counters as they were before it.
C17_UnusableInputRaises ==
    /\ [](\A i \in 1..Len(returned) :
            /\ returned[i].xml_path = "missing"
                  => returned[i].raised = "FileNotFoundError"
            /\ returned[i].xml_path = "no_title"
                  => returned[i].raised = "ValueError"
            /\ returned[i].raised # "no"
                  => DOMAIN returned[i] = {"raised", "via", "xml_path"})
    /\ [][(returned' # returned /\ returned'[Len(returned')].raised # "no")
            => /\ Len(returned') = Len(returned) + 1
               /\ stack' = <<>>
               /\ via' = "idle"
               /\ UNCHANGED <<sections_parsed, total_nodes, repealed_sections>>
       ]_vars

\* A parser that returned a tree with a section in it from parse_file and was
\* then called on a path where no file is: FileNotFoundError, its counters
\* still those of the first parse.
C17_Witness ==
    /\ Len(returned) = 2
    /\ returned[1].raised = "no"
    /\ returned[1].via = "parse_file"
    /\ returned[2].raised = "FileNotFoundError"
    /\ returned[2].via = "parse_file"
    /\ sections_parsed = returned[1].total_sections
    /\ sections_parsed > 0
    /\ total_nodes > 1

\* C18: in every parsed tree the root's parent_id is absent, and the
\* parent_id of every other node is the id of the node whose children list
\* holds it, so parent_id names a node of the tree.
C18_ParentIdNamesTheParent ==
    \A r \in Results :
        /\ r.root.parent_id = None
        /\ \A n \in TreeNodes(r.root) :
               \A i \in 1..Len(n.children) :
                   /\ n.children[i].parent_id = Some(n.id)
                   /\ \E m \in TreeNodes(r.root) : n.children[i].parent_id = Some(m.id)

\* A returned tree three levels deep: the root, a child naming the root and a
\* grandchild naming the child, whose id is not the root's.
C18_Witness ==
    \E r \in Results :
        /\ Len(r.root.children) > 0
        /\ Len(r.root.children[1].children) > 0
        /\ r.root.children[1].parent_id = Some(r.root.id)
        /\ r.root.children[1].children[1].parent_id = Some(r.root.children[1].id)
        /\ r.root.children[1].id # r.root.id

(***************************************************************************)
(* Claims about traversal order (specification SpecNested).                *)
(***************************************************************************)
\* The recognized structural children of element i, in document order.
RecognizedChildrenOf(i) ==
    LET Recognized(j) == doc[j].elem.tag \in DOMAIN ELEMENT_TO_NODE_TYPE
    IN  SelectSeq(ChildrenOf(i), Recognized)

\* The nodes of the parse in progress.
NodesInProgress == UNION { TreeNodes(stack[i].node) : i \in 1..Len(stack) }

\* C19: tree construction is strict pre-order.  A node is made and counted in
\* the step that opens its call, before any of its children is visited; the
\* structural elements with a node are, at every moment of an uncut parse, the
\* first ones of the document in pre-order; the children list of every node
\* holds nodes of its recognized structural child elements in source order,
\* and in a tree returned without cutoff exactly one node per recognized
\* direct child element.
C19_StrictPreOrder ==
    /\ [](\A n \in AllNodes :
            /\ \A i \in 1..Len(n.children) :
                   /\ \E c \in 1..Len(RecognizedChildrenOf(n.elem)) :
                          RecognizedChildrenOf(n.elem)[c] = n.children[i].elem
                   /\ \A j \in (i + 1)..Len(n.children) :
                          n.children[i].elem < n.children[j].elem)
    /\ [](\A r \in Results :
            max_sections = None
                => \A n \in TreeNodes(r.root) :
                       [i \in 1..Len(n.children) |-> n.children[i].elem]
                           = RecognizedChildrenOf(n.elem))
    /\ [](max_sections = None
            => \A n \in NodesInProgress :
                   \A j \in 1..n.elem :
                       Materializable(j) => \E m \in NodesInProgress : m.elem = j)
    /\ [][Len(stack') > Len(stack)
            => /\ stack'[Len(stack')].k = 0
               /\ stack'[Len(stack')].node.children = <<>>
               /\ total_nodes' = total_nodes + 1
               /\ \A i \in 1..Len(stack) :
                      stack'[i].node.children = stack[i].node.children
       ]_vars

\* A tree returned without cutoff whose root has two children, the first with
\* a child of its own: the document's second, third and fourth element.
C19_Witness ==
    \E r \in Results :
        /\ max_sections = None
        /\ Len(r.root.children) = 2
        /\ Len(r.root.children[1].children) = 1
        /\ r.root.children[1].elem = 2
        /\ r.root.children[1].children[1].elem = 3
        /\ r.root.children[2].elem = 4

\* The place of node x in a sequence of nodes.
PositionIn(f, x) == CHOOSE i \in 1..Len(f) : f[i] = x

\* C20: for every node of a tree, flatten_nodes returns every node reachable
\* from it exactly once, a node before its descendants and the subtrees of
\* siblings in children order; its length is the number of nodes of the
\* tree, 1 for a childless node.
C20_FlattenIsPreOrder ==
    \A n \in AllNodes :
        LET f == FlattenNodes(n)
        IN  /\ Len(f) = CountNodes(n)
            /\ { f[i] : i \in 1..Len(f) } = TreeNodes(n)
            /\ \A i, j \in 1..Len(f) : f[i] = f[j] => i = j
            /\ n.children = <<>> => Len(f) = 1
            /\ f[1] = n
            /\ \A m \in TreeNodes(n) :
                   \A i \in 1..Len(m.children) :
                       \A d \in TreeNodes(m.children[i]) :
                           /\ PositionIn(f, m) < PositionIn(f, d)
                           /\ \A j \in (i + 1)..Len(m.children) :
                                  \A e \in TreeNodes(m.children[j]) :
                                      PositionIn(f, d) < PositionIn(f, e)

\* A returned tree of four nodes, flattened to the root, its first child,
\* that child's child, and the root's second child.
C20_Witness ==
    \E r \in Results :
        /\ Len(r.root.children) = 2
        /\ Len(r.root.children[1].children) = 1
        /\ FlattenNodes(r.root)
               = <<r.root, r.root.children[1], r.root.children[1].children[1],
                   r.root.children[2]>>

(***************************************************************************)
(* USLMParser._clean_text (specification SpecClean): html.unescape, every  *)
(* run of whitespace to one space, strip.                                  *)
(***************************************************************************)
Str_amp == <<"a", "m", "p">>
Str_lt == <<"l", "t">>
Str_nbsp == <<"n", "b", "s", "p">>

\* The named character references of html.entities.html5 the texts here can
\* hold, as pairs <<name, character>>: with ";" and, as these three are also
\* legacy names, without it.
Html5 ==
    { <<Str_amp \o <<";">>, <<"&">>>>, <<Str_amp, <<"&">>>>,
      <<Str_lt \o <<";">>, <<"<">>>>, <<Str_lt, <<"<">>>>,
      <<Str_nbsp \o <<";">>, <<NBSP>>>>, <<Str_nbsp, <<NBSP>>>> }

InHtml5(name) == \E e \in Html5 : e[1] = name
Html5Of(name) == (CHOOSE e \in Html5 : e[1] = name)[2]

\* chr(num) for the numeric character references the texts here can hold:
\* &#32; is a space and &#38; an ampersand.
NumericChar(digits) ==
    IF digits = <<"3", "2">> THEN <<" ">>
    ELSE IF digits = <<"3", "8">> THEN <<"&">>
    ELSE <<"?">>

\* The characters that end the name of a character reference: the pattern of
\* html.unescape takes [^\t\n\f <&#;]{1,32} and then an optional ";".
NameStop == {"\t", "\n", "\f", " ", "<", "&", "#", ";"}

\* The number of leading characters of s that are not in the set chars.
RECURSIVE LeadingRunOutside(_, _)
LeadingRunOutside(s, chars) ==
    IF s # <<>> /\ Head(s) \notin chars
    THEN 1 + LeadingRunOutside(Tail(s), chars)
    ELSE 0

\* The text the pattern of html.unescape matches after an "&" that is followed
\* by rest: "#", digits and an optional ";", or a name and an optional ";";
\* empty when the pattern does not match.
CharrefAfter(rest) ==
    LET body == IF rest # <<>> /\ Head(rest) = "#"
                THEN IF LeadingRun(Tail(rest), Digits) > 0
                     THEN 1 + LeadingRun(Tail(rest), Digits)
                     ELSE 0
                ELSE LeadingRunOutside(rest, NameStop)
        semi == IF body > 0 /\ Len(rest) > body /\ rest[body + 1] = ";"
                THEN 1 ELSE 0
    IN  SubSeq(rest, 1, body + semi)

\* What html.unescape puts for "&" and the matched text s: the character of a
\* numeric reference; the character of a name in html5; else the character of
\* the longest proper prefix of s in html5 (of two characters or more) and the
\* rest of s; else the text as it is.
ReplaceCharref(s) ==
    IF Head(s) = "#"
    THEN NumericChar(Strip(Tail(s), {";"}))
    ELSE IF InHtml5(s)
    THEN Html5Of(s)
    ELSE LET xs == { x \in 2..(Len(s) - 1) : InHtml5(SubSeq(s, 1, x)) }
         IN  IF xs # {}
             THEN LET x == CHOOSE y \in xs : \A z \in xs : z <= y
                  IN  Html5Of(SubSeq(s, 1, x)) \o SubSeq(s, x + 1, Len(s))
             ELSE <<"&">> \o s

\* html.unescape(text): one pass from left to right; what it puts for a
\* reference is not read again.  The text up to the next "&" is copied.
RECURSIVE Unescape(_)
Unescape(t) ==
    LET amps == { i \in 1..Len(t) : t[i] = "&" }
        i == CHOOSE j \in amps : \A k \in amps : j <= k
        s == CharrefAfter(SubSeq(t, i + 1, Len(t)))
    IN  IF amps = {} THEN t
        ELSE IF s # <<>>
        THEN SubSeq(t, 1, i - 1) \o ReplaceCharref(s)
                 \o Unescape(SubSeq(t, i + Len(s) + 1, Len(t)))
        ELSE SubSeq(t, 1, i) \o Unescape(SubSeq(t, i + 1, Len(t)))

\* re.sub(r"\s+", " ", text): the text up to the next whitespace is copied
\* and the run of whitespace there becomes one space.
RECURSIVE CollapseWhitespace(_)
CollapseWhitespace(t) ==
    LET spaces == { i \in 1..Len(t) : t[i] \in Whitespace }
        i == CHOOSE j \in spaces : \A k \in spaces : j <= k
        rest == SubSeq(t, i, Len(t))
    IN  IF spaces = {} THEN t
        ELSE SubSeq(t, 1, i - 1) \o <<" ">>
                 \o CollapseWhitespace(SliceFrom(rest, LeadingRun(rest, Whitespace)))

\* _clean_text(text)
CleanText(t) == Strip(CollapseWhitespace(Unescape(t)), Whitespace)

\* The pieces the texts to clean are made of: an ampersand, the rest of the
\* references &amp; &lt; &nbsp; &#32; and &#38;, the legacy name amp, a
\* letter, a space and a newline.
CleanPieces ==
    { <<"&">>, Str_amp \o <<";">>, Str_amp, Str_lt \o <<";">>,
      Str_nbsp \o <<";">>, <<"#", "3", "2", ";">>, <<"#", "3", "8", ";">>,
      <<"x">>, <<" ">>, <<"\n">> }

\* The concatenations of at most n pieces.
RECURSIVE CleanTextsOf(_)
CleanTextsOf(n) ==
    IF n = 0 THEN {<<>>}
    ELSE LET shorter == CleanTextsOf(n - 1)
         IN  shorter \cup { t \o piece : t \in shorter, piece \in CleanPieces }

\* _clean_text is about to be called on a text; first is the result of the
\* first call once the result is cleaned again.
InitClean ==
    /\ doc = <<>>
    /\ max_sections = None
    /\ sections_parsed = 0
    /\ total_nodes = 0
    /\ repealed_sections = <<>>
    /\ stack = <<>>
    /\ via = "idle"
    /\ returned = <<>>
    /\ \E t \in CleanTextsOf(MaxPieces) :
           call = [fn |-> "_clean_text", text |-> t, first |-> None]
    /\ ret = None

\* text = self._clean_text(text)
CleanTextCall ==
    /\ call.fn = "_clean_text"
    /\ ret = None
    /\ ret' = Some(CleanText(call.text))
    /\ UNCHANGED <<parserVars, call>>

\* _clean_text called on the text it returned.
CleanTextAgainCall ==
    /\ call.fn = "_clean_text"
    /\ ret # None
    /\ call.first = None
    /\ call' = [call EXCEPT !.first = ret]
    /\ ret' = Some(CleanText(ret[1]))
    /\ UNCHANGED parserVars

NextClean == CleanTextCall \/ CleanTextAgainCall

SpecClean == InitClean /\ [][NextClean]_vars

\* C15: text normalization is idempotent: cleaning a cleaned text returns it
\* unchanged, for every text, those with character references that decode to
\* another reference or to whitespace included.
C15_CleanTextIsIdempotent ==
    (call.fn = "_clean_text" /\ call.first # None) => ret = call.first

(***************************************************************************)
(* USLMParser._table_to_markdown (specification SpecTable).  A table is    *)
(* the sequence of its tr elements in document order, a tr the sequence of *)
(* its children, a child its tag and the text "".join(cell.itertext()).    *)
(***************************************************************************)
\* cell_text.replace("|", "\\|")
RECURSIVE EscapePipes(_)
EscapePipes(t) ==
    IF t = <<>> THEN <<>>
    ELSE (IF Head(t) = "|" THEN <<"\\", "|">> ELSE <<Head(t)>>)
            \o EscapePipes(Tail(t))

\* The cells of a tr: the stripped, escaped texts of its th and td children.
RECURSIVE CellsOf(_)
CellsOf(tr) ==
    IF tr = <<>> THEN <<>>
    ELSE (IF Head(tr).tag \in {"th", "td"}
          THEN <<EscapePipes(Strip(Head(tr).text, Whitespace))>>
          ELSE <<>>)
            \o CellsOf(Tail(tr))

\* rows: the cells of every tr that has cells (`if cells: rows.append(cells)`).
RECURSIVE RowsOf(_)
RowsOf(table) ==
    IF table = <<>> THEN <<>>
    ELSE (IF CellsOf(Head(table)) # <<>> THEN <<CellsOf(Head(table))>> ELSE <<>>)
            \o RowsOf(Tail(table))

\* sep.join(parts)
RECURSIVE JoinWith(_, _)
JoinWith(parts, sep) ==
    IF parts = <<>> THEN <<>>
    ELSE IF Len(parts) = 1 THEN Head(parts)
    ELSE Head(parts) \o sep \o JoinWith(Tail(parts), sep)

\* "| " + " | ".join(cells) + " |"
MarkdownLine(cells) ==
    <<"|", " ">> \o JoinWith(cells, <<" ", "|", " ">>) \o <<" ", "|">>

\* `while len(row) < len(rows[0]): row.append("")`: a row longer than the
\* header stays as it is.
PadRow(row, n) ==
    IF Len(row) < n THEN row \o [i \in 1..(n - Len(row)) |-> <<>>]
    ELSE row

\* _table_to_markdown(table)
TableToMarkdown(table) ==
    LET rows == RowsOf(table)
        n == Len(rows[1])
        md_lines ==
            <<MarkdownLine(rows[1]),
              MarkdownLine([i \in 1..n |-> <<"-", "-", "-">>])>>
                \o [r \in 1..(Len(rows) - 1) |-> MarkdownLine(PadRow(rows[r + 1], n))]
    IN  IF rows = <<>> THEN <<>>
        ELSE JoinWith(md_lines, <<"\n">>)

\* The tr elements tables are made of: a header of two th, a row of one td
\* with a pipe in its text, a row of three td, a row of two td with space
\* around a text, a tr with no cell, and a row with an element between its
\* two td that is no cell.
TableRows ==
    { <<[tag |-> "th", text |-> <<"h">>], [tag |-> "th", text |-> <<"k">>]>>,
      <<[tag |-> "td", text |-> <<"a", "|", "b">>]>>,
      <<[tag |-> "td", text |-> <<"1">>], [tag |-> "td", text |-> <<>>],
        [tag |-> "td", text |-> <<"3">>]>>,
      <<[tag |-> "td", text |-> <<" ", "x", "\n">>],
        [tag |-> "td", text |-> <<"|">>]>>,
      <<[tag |-> "caption", text |-> <<"c">>]>>,
      <<[tag |-> "td", text |-> <<"y">>], [tag |-> "span", text |-> <<"s">>],
        [tag |-> "td", text |-> <<"z">>]>> }

\* The tables of at most n tr elements.
RECURSIVE TablesOf(_)
TablesOf(n) ==
    IF n = 0 THEN {<<>>}
    ELSE LET shorter == TablesOf(n - 1)
         IN  shorter \cup { Append(t, tr) : t \in shorter, tr \in TableRows }

InitTable ==
    /\ doc = <<>>
    /\ max_sections = None
    /\ sections_parsed = 0
    /\ total_nodes = 0
    /\ repealed_sections = <<>>
    /\ stack = <<>>
    /\ via = "idle"
    /\ returned = <<>>
    /\ \E t \in TablesOf(MaxRows) : call = [fn |-> "_table_to_markdown", table |-> t]
    /\ ret = None

\* table_text = self._table_to_markdown(table)
TableToMarkdownCall ==
    /\ call.fn = "_table_to_markdown"
    /\ ret = None
    /\ ret' = Some(TableToMarkdown(call.table))
    /\ UNCHANGED <<parserVars, call>>

NextTable == TableToMarkdownCall

SpecTable == InitTable /\ [][NextTable]_vars

\* The number of pipes of a line that no backslash stands before: the pipes
\* that delimit columns.
UnescapedPipes(line) ==
    Cardinality({ i \in 1..Len(line) :
                    line[i] = "|" /\ (i = 1 \/ line[i - 1] # "\\") })

\* The number of th and td children of a tr.
CellCount(tr) == Cardinality({ i \in 1..Len(tr) : tr[i].tag \in {"th", "td"} })

\* C16: the block rendered for a table with at least one row of cells has the
\* same number of columns in the header line, the separator line and every
\* data line, whatever the number of cells of each source row: every line has
\* as many column-delimiting pipes as the header has cells and one more, the
\* pipes of cell texts being escaped, and there are as many lines as rows of
\* cells and one more.
C16_EqualColumnCounts ==
    (/\ call.fn = "_table_to_markdown"
     /\ ret # None
     /\ \E r \in 1..Len(call.table) : CellCount(call.table[r]) > 0)
        => LET lines == Split(ret[1], "\n")
               first == CHOOSE r \in 1..Len(call.table) :
                            /\ CellCount(call.table[r]) > 0
                            /\ \A q \in 1..(r - 1) : CellCount(call.table[q]) = 0
               rowCount == Cardinality({ r \in 1..Len(call.table) :
                                           CellCount(call.table[r]) > 0 })
           IN  /\ Len(lines) = rowCount + 1
               /\ \A l \in 1..Len(lines) :
                      UnescapedPipes(lines[l]) = CellCount(call.table[first]) + 1

(***************************************************************************)
(* The tree utilities of the graph loader (specification SpecTree):        *)
(* extract_parent_relationships, extract_all_references and                *)
(* ParsedTaxCode.get_all_references on trees of LegalNode.                 *)
(***************************************************************************)
\* References as extract_references makes them, as the tests of the graph
\* loader build them.
Ref162 ==
    [target_section |-> <<"1", "6", "2">>, reference_type |-> "general",
     context |-> Str_section \o <<" ", "1", "6", "2">>]
Ref274 ==
    [target_section |-> <<"2", "7", "4">>, reference_type |-> "exception",
     context |-> Str_section \o <<" ", "2", "7", "4">>]

\* The id and the references of the nodes trees are made of: a node without
\* references, a node with one, and a node with two under the id of the
\* second.
NodeLabels ==
    { [id |-> Str_26USC \o <<"1">>, references |-> <<>>],
      [id |-> Str_26USC \o <<"1", "(", "a", ")">>, references |-> <<Ref162>>],
      [id |-> Str_26USC \o <<"1", "(", "a", ")">>,
       references |-> <<Ref274, Ref162>>] }

\* The LegalNode at place i of a tree given in pre-order by the depths d and
\* the labels l of its nodes; pos is its place.
RECURSIVE SubtreeAt(_, _, _)
SubtreeAt(d, l, i) ==
    LET isChild(j) ==
            /\ j > i
            /\ d[j] = d[i] + 1
            /\ \A m \in (i + 1)..(j - 1) : d[m] > d[i]
        RECURSIVE From(_)
        From(j) == IF j > Len(d) THEN <<>>
                   ELSE IF isChild(j) THEN <<SubtreeAt(d, l, j)>> \o From(j + 1)
                   ELSE From(j + 1)
    IN  [pos |-> i, id |-> l[i].id, references |-> l[i].references,
         children |-> From(i + 1)]

\* The trees of at most MaxTreeNodes nodes.
Trees ==
    UNION { { SubtreeAt([i \in 1..n |-> IF i = 1 THEN 0 ELSE d[i]], l, 1)
              : d \in { e \in [1..n -> 0..(n - 1)] :
                          /\ e[1] = 0
                          /\ \A i \in 2..n : e[i] >= 1 /\ e[i] <= e[i - 1] + 1 },
                l \in [1..n -> NodeLabels] }
            : n \in 1..MaxTreeNodes }

\* A listing of the edges below the node given only, not those further down.
ExtractParentRelationshipsDirectOnly(node) ==
    [i \in 1..Len(node.children) |-> <<node.id, node.children[i].id>>]

\* extract_parent_relationships(node): for each child, the pair
\* (node.id, child.id) and then the pairs of the child's subtree.
RECURSIVE ExtractParentRelationships(_)
ExtractParentRelationships(node) ==
    LET RECURSIVE OfChildren(_)
        OfChildren(cs) ==
            IF cs = <<>> THEN <<>>
            ELSE <<<<node.id, Head(cs).id>>>>
                    \o ExtractParentRelationships(Head(cs))
                    \o OfChildren(Tail(cs))
    IN  OfChildren(node.children)

\* A listing that gives every reference of a subtree the id of its root.
RECURSIVE ExtractAllReferencesUnderRootId(_)
ExtractAllReferencesUnderRootId(node) ==
    LET RECURSIVE OfChildren(_)
        OfChildren(cs) ==
            IF cs = <<>> THEN <<>>
            ELSE [i \in 1..Len(ExtractAllReferencesUnderRootId(Head(cs))) |->
                     <<node.id, ExtractAllReferencesUnderRootId(Head(cs))[i][2]>>]
                    \o OfChildren(Tail(cs))
    IN  [i \in 1..Len(node.references) |-> <<node.id, node.references[i]>>]
            \o OfChildren(node.children)

\* extract_all_references(node): the pairs (node.id, ref) of the node's own
\* references, then those of each child's subtree.
RECURSIVE ExtractAllReferences(_)
ExtractAllReferences(node) ==
    LET RECURSIVE OfChildren(_)
        OfChildren(cs) ==
            IF cs = <<>> THEN <<>>
            ELSE ExtractAllReferences(Head(cs)) \o OfChildren(Tail(cs))
    IN  [i \in 1..Len(node.references) |-> <<node.id, node.references[i]>>]
            \o OfChildren(node.children)

\* ParsedTaxCode.get_all_references(): collect_refs(self.root) appends the
\* node's pairs to refs and then collects from each child.
GetAllReferences(parsed) ==
    LET RECURSIVE CollectRefs(_, _)
        CollectRefs(node, refs) ==
            LET own == refs \o [i \in 1..Len(node.references) |->
                                   <<node.id, node.references[i]>>]
                RECURSIVE OverChildren(_, _)
                OverChildren(cs, acc) ==
                    IF cs = <<>> THEN acc
                    ELSE OverChildren(Tail(cs), CollectRefs(Head(cs), acc))
            IN  OverChildren(node.children, own)
    IN  CollectRefs(parsed.root, <<>>)

\* The utilities are about to be applied to a tree; ret lists what each one
\* returned, in the order they were applied.
InitTree ==
    /\ doc = <<>>
    /\ max_sections = None
    /\ sections_parsed = 0
    /\ total_nodes = 0
    /\ repealed_sections = <<>>
    /\ stack = <<>>
    /\ via = "idle"
    /\ returned = <<>>
    /\ \E t \in Trees : call = [fn |-> "tree_utilities", node |-> t]
    /\ ret = <<>>

Applied(fn) == \E i \in 1..Len(ret) : ret[i].fn = fn

\* parent_rels = extract_parent_relationships(parsed.root)
ExtractParentRelationshipsCall ==
    /\ call.fn = "tree_utilities"
    /\ ~Applied("extract_parent_relationships")
    /\ ret' = Append(ret, [fn |-> "extract_parent_relationships",
                           value |-> ExtractParentRelationships(call.node)])
    /\ UNCHANGED <<parserVars, call>>

\* all_refs = extract_all_references(parsed.root)
ExtractAllReferencesCall ==
    /\ call.fn = "tree_utilities"
    /\ ~Applied("extract_all_references")
    /\ ret' = Append(ret, [fn |-> "extract_all_references",
                           value |-> ExtractAllReferences(call.node)])
    /\ UNCHANGED <<parserVars, call>>

\* ParsedTaxCode(root=node).get_all_references()
GetAllReferencesCall ==
    /\ call.fn = "tree_utilities"
    /\ ~Applied("get_all_references")
    /\ ret' = Append(ret, [fn |-> "get_all_references",
                           value |-> GetAllReferences([root |-> call.node])])
    /\ UNCHANGED <<parserVars, call>>

NextTree ==
    \/ ExtractParentRelationshipsCall
    \/ ExtractAllReferencesCall
    \/ GetAllReferencesCall

SpecTree == InitTree /\ [][NextTree]_vars

\* What the utility fn returned.
ResultOf(fn) == ret[CHOOSE i \in 1..Len(ret) : ret[i].fn = fn].value

\* The node of the tree below root whose children list holds x.
ParentIn(root, x) ==
    CHOOSE m \in TreeNodes(root) : \E j \in 1..Len(m.children) : m.children[j] = x

\* C21: extract_parent_relationships returns one pair (parent.id, child.id)
\* for every parent/child edge of the tree and nothing else: one pair for
\* every node but the root, of that node's id and the id of the node that
\* holds it, so the number of pairs is the number of nodes minus one.
C21_OnePairPerEdge ==
    (call.fn = "tree_utilities" /\ Applied("extract_parent_relationships"))
        => LET rels == ResultOf("extract_parent_relationships")
               f == FlattenNodes(call.node)
           IN  /\ Len(rels) = CountNodes(call.node) - 1
               /\ call.node.children = <<>> => rels = <<>>
               /\ \A k \in 1..Len(rels) :
                      rels[k] = <<ParentIn(call.node, f[k + 1]).id, f[k + 1].id>>

\* A chain of three levels, with its two pairs.
C21_Witness ==
    /\ call.fn = "tree_utilities"
    /\ Applied("extract_parent_relationships")
    /\ CountNodes(call.node) = 3
    /\ Len(call.node.children) = 1
    /\ Len(call.node.children[1].children) = 1
    /\ ResultOf("extract_parent_relationships")
           = <<<<call.node.id, call.node.children[1].id>>,
               <<call.node.children[1].id, call.node.children[1].children[1].id>>>>

\* The pairs (m.id, ref) of the references of the nodes of a sequence, node
\* by node.
RECURSIVE PairsOfNodes(_)
PairsOfNodes(nodes) ==
    IF nodes = <<>> THEN <<>>
    ELSE [i \in 1..Len(Head(nodes).references) |->
             <<Head(nodes).id, Head(nodes).references[i]>>]
            \o PairsOfNodes(Tail(nodes))

\* C22: extract_all_references returns one pair (source id, reference) for
\* every reference held by a node of the tree, the source id being the id of
\* the node that holds it, in pre-order of the holding nodes; and
\* ParsedTaxCode.get_all_references returns the same sequence for the tree.
C22_ReferencesOfHoldingNodes ==
    /\ (call.fn = "tree_utilities" /\ Applied("extract_all_references"))
           => ResultOf("extract_all_references")
                  = PairsOfNodes(FlattenNodes(call.node))
    /\ (call.fn = "tree_utilities" /\ Applied("extract_all_references")
            /\ Applied("get_all_references"))
           => ResultOf("get_all_references") = ResultOf("extract_all_references")

\* A tree whose root holds no reference and whose descendants hold some under
\* another id, with both listings made.
C22_Witness ==
    /\ call.fn = "tree_utilities"
    /\ Applied("extract_all_references")
    /\ Applied("get_all_references")
    /\ call.node.references = <<>>
    /\ Len(call.node.children) = 2
    /\ call.node.children[1].id # call.node.id
    /\ Len(call.node.children[1].references) = 2
    /\ Len(call.node.children[1].children) = 1
    /\ Len(call.node.children[1].children[1].references) = 1
    /\ Len(ResultOf("extract_all_references")) >= 3

(***************************************************************************)
(* USLMParser._extract_text and _element_to_text (specification SpecText). *)
(* An element is its tag, its text (what stands before its first child),   *)
(* its tail (what stands after its end tag), its children, and for a table *)
(* its tr elements.                                                        *)
(***************************************************************************)
\* A table of a header row and a data row.
SmallTable ==
    << <<[tag |-> "th", text |-> <<"h">>], [tag |-> "th", text |-> <<"k">>]>>,
       <<[tag |-> "td", text |-> <<"1">>], [tag |-> "td", text |-> <<"2">>]>> >>

\* The children of the elements handed to _element_to_text: an inline element
\* with a tail, a table with a tail, and a paragraph without a tail.
ProseChildKinds ==
    { [tag |-> "i", text |-> <<"b">>, tail |-> <<" ", "m", " ">>,
       children |-> <<>>, rows |-> <<>>],
      [tag |-> "table", text |-> <<>>, tail |-> <<" ", "z">>,
       children |-> <<>>, rows |-> SmallTable],
      [tag |-> "p", text |-> <<"q">>, tail |-> <<>>,
       children |-> <<>>, rows |-> <<>>] }

\* The children of the elements handed to _extract_text: num, content, a
\* paragraph, a note with a character reference, a subsection (a structural
\* element), and a table.
TextChildKinds ==
    { [tag |-> "num", text |-> <<"7">>, tail |-> <<" ", "t">>,
       children |-> <<>>, rows |-> <<>>],
      [tag |-> "content", text |-> <<"c", "\n", " ", "d">>, tail |-> <<>>,
       children |-> <<>>, rows |-> <<>>],
      [tag |-> "p", text |-> <<"q">>, tail |-> <<>>,
       children |-> <<>>, rows |-> <<>>],
      [tag |-> "note", text |-> <<"n", "&", "a", "m", "p", ";">>, tail |-> <<>>,
       children |-> <<>>, rows |-> <<>>],
      [tag |-> "subsection", text |-> <<"s">>, tail |-> <<>>,
       children |-> <<>>, rows |-> <<>>],
      [tag |-> "table", text |-> <<>>, tail |-> <<>>,
       children |-> <<>>, rows |-> SmallTable] }

\* The sequences of at most n members of a set of kinds.
RECURSIVE ChildSeqs(_, _)
ChildSeqs(kinds, n) ==
    IF n = 0 THEN {<<>>}
    ELSE LET shorter == ChildSeqs(kinds, n - 1)
         IN  shorter \cup { Append(cs, k) : cs \in shorter, k \in kinds }

\* "".join(elem.itertext()): the element's text, then for each child its
\* itertext and its tail; for a table the texts of its cells.
RECURSIVE IterText(_)
IterText(elem) ==
    LET RECURSIVE OfChildren(_)
        OfChildren(cs) ==
            IF cs = <<>> THEN <<>>
            ELSE IterText(Head(cs)) \o Head(cs).tail \o OfChildren(Tail(cs))
        RECURSIVE OfCells(_)
        OfCells(cells) ==
            IF cells = <<>> THEN <<>>
            ELSE Head(cells).text \o OfCells(Tail(cells))
        RECURSIVE OfRows(_)
        OfRows(rows) ==
            IF rows = <<>> THEN <<>>
            ELSE OfCells(Head(rows)) \o OfRows(Tail(rows))
    IN  elem.text \o OfRows(elem.rows) \o OfChildren(elem.children)

\* The tails of the children that have one (`if child.tail`).
RECURSIVE Tails(_)
Tails(cs) ==
    IF cs = <<>> THEN <<>>
    ELSE (IF Head(cs).tail # <<>> THEN <<Head(cs).tail>> ELSE <<>>)
            \o Tails(Tail(cs))

\* _element_to_text(elem): a table is rendered; with a table below it, the
\* element gives its text, the rendered table and the tails of its children;
\* else its itertext.
ElementToText(elem) ==
    LET tables == { i \in 1..Len(elem.children) : elem.children[i].tag = "table" }
        table == elem.children[CHOOSE i \in tables : \A j \in tables : i <= j]
    IN  IF elem.tag = "table" THEN TableToMarkdown(elem.rows)
        ELSE IF tables # {}
        THEN Strip(elem.text \o <<"\n">> \o TableToMarkdown(table.rows)
                       \o <<"\n">> \o JoinWith(Tails(elem.children), <<" ">>),
                   Whitespace)
        ELSE IterText(elem)

\* The parts _extract_text would collect if it also took the structural
\* children.
TextPartsWithStructural(elem) ==
    LET contents == { i \in 1..Len(elem.children) : elem.children[i].tag = "content" }
        RECURSIVE OfChildren(_)
        OfChildren(cs) ==
            IF cs = <<>> THEN <<>>
            ELSE (IF Head(cs).tag \notin {"num", "heading", "meta"}
                  THEN <<ElementToText(Head(cs))>> ELSE <<>>)
                    \o OfChildren(Tail(cs))
    IN  IF contents # {}
        THEN <<ElementToText(elem.children[CHOOSE i \in contents :
                                               \A j \in contents : i <= j])>>
        ELSE (IF elem.text # <<>> THEN <<Strip(elem.text, Whitespace)>> ELSE <<>>)
                \o OfChildren(elem.children)

\* text_parts of _extract_text (lines 263-281): the text of the first content
\* child alone, or else the element's stripped text and then the texts of the
\* children that are neither structural nor num, heading or meta.
TextParts(elem) ==
    LET contents == { i \in 1..Len(elem.children) : elem.children[i].tag = "content" }
        RECURSIVE OfChildren(_)
        OfChildren(cs) ==
            IF cs = <<>> THEN <<>>
            ELSE (IF /\ Head(cs).tag \notin DOMAIN ELEMENT_TO_NODE_TYPE
                     /\ Head(cs).tag \notin {"num", "heading", "meta"}
                  THEN <<ElementToText(Head(cs))>> ELSE <<>>)
                    \o OfChildren(Tail(cs))
    IN  IF contents # {}
        THEN <<ElementToText(elem.children[CHOOSE i \in contents :
                                               \A j \in contents : i <= j])>>
        ELSE (IF elem.text # <<>> THEN <<Strip(elem.text, Whitespace)>> ELSE <<>>)
                \o OfChildren(elem.children)

\* _extract_text(elem): " ".join(filter(None, text_parts)), cleaned.
ExtractText(elem) ==
    LET NonEmpty(part) == part # <<>>
    IN  CleanText(JoinWith(SelectSeq(TextParts(elem), NonEmpty), <<" ">>))

\* One of the two functions is about to be applied to an element.
InitText ==
    /\ doc = <<>>
    /\ max_sections = None
    /\ sections_parsed = 0
    /\ total_nodes = 0
    /\ repealed_sections = <<>>
    /\ stack = <<>>
    /\ via = "idle"
    /\ returned = <<>>
    /\ \/ \E t \in {<<>>, <<"a", " ">>}, cs \in ChildSeqs(ProseChildKinds, MaxChildren) :
              call = [fn |-> "_element_to_text",
                      elem |-> [tag |-> "content", text |-> t, tail |-> <<>>,
                                children |-> cs, rows |-> <<>>]]
       \/ \E t \in {<<>>, <<" ", "a", " ">>}, cs \in ChildSeqs(TextChildKinds, MaxChildren) :
              call = [fn |-> "_extract_text",
                      elem |-> [tag |-> "section", text |-> t, tail |-> <<>>,
                                children |-> cs, rows |-> <<>>]]
    /\ ret = None

\* text_parts.append(self._element_to_text(content))
ElementToTextCall ==
    /\ call.fn = "_element_to_text"
    /\ ret = None
    /\ ret' = Some(ElementToText(call.elem))
    /\ UNCHANGED <<parserVars, call>>

\* text = self._extract_text(elem)
ExtractTextCall ==
    /\ call.fn = "_extract_text"
    /\ ret = None
    /\ ret' = Some(ExtractText(call.elem))
    /\ UNCHANGED <<parserVars, call>>

NextText == ElementToTextCall \/ ExtractTextCall

SpecText == InitText /\ [][NextText]_vars

\* A text without its whitespace.
RECURSIVE WithoutWhitespace(_)
WithoutWhitespace(t) ==
    IF t = <<>> THEN <<>>
    ELSE (IF Head(t) \in Whitespace THEN <<>> ELSE <<Head(t)>>)
            \o WithoutWhitespace(Tail(t))

\* The prose of the children of a sequence: their texts and tails in order.
RECURSIVE ProseOf(_)
ProseOf(cs) ==
    IF cs = <<>> THEN <<>>
    ELSE IterText(Head(cs)) \o Head(cs).tail \o ProseOf(Tail(cs))

\* C23: in the text of an element with one table among its children, the
\* rendered table stands between the prose of the element before the table
\* (its text, and the texts and tails of the children before the table) and
\* the prose after it (the tail of the table, and the texts and tails of the
\* children after it): nothing is dropped or moved across the table.
C23_ProseAroundTheTable ==
    (/\ call.fn = "_element_to_text"
     /\ ret # None
     /\ Cardinality({ i \in 1..Len(call.elem.children) :
                        call.elem.children[i].tag = "table" }) = 1)
        => LET cs == call.elem.children
               k == CHOOSE i \in 1..Len(cs) : cs[i].tag = "table"
               out == ret[1]
               pipes == { i \in 1..Len(out) : out[i] = "|" }
               a == CHOOSE i \in pipes : \A j \in pipes : i <= j
               b == CHOOSE i \in pipes : \A j \in pipes : j <= i
           IN  /\ pipes # {}
               /\ SubSeq(out, a, b) = TableToMarkdown(cs[k].rows)
               /\ WithoutWhitespace(SubSeq(out, 1, a - 1))
                      = WithoutWhitespace(call.elem.text \o ProseOf(SubSeq(cs, 1, k - 1)))
               /\ WithoutWhitespace(SubSeq(out, b + 1, Len(out)))
                      = WithoutWhitespace(cs[k].tail
                                              \o ProseOf(SubSeq(cs, k + 1, Len(cs))))

\* C24: the text of a node comes from one source.  With a direct content
\* child it is the cleaned text of that child alone; otherwise it is the
\* cleaned joining of the element's own stripped text and then the texts of
\* its direct children that are neither structural elements nor num, heading
\* or meta, in document order; the text of a structural child is no part of
\* it.
C24_TextFromOneSource ==
    (call.fn = "_extract_text" /\ ret # None)
        => LET cs == call.elem.children
               IsContent(c) == c.tag = "content"
               IsProse(c) == /\ c.tag \notin DOMAIN ELEMENT_TO_NODE_TYPE
                             /\ c.tag \notin {"num", "heading", "meta"}
               NonEmpty(part) == part # <<>>
               own == Strip(call.elem.text, Whitespace)
               prose == SelectSeq(cs, IsProse)
               parts == <<own>> \o [i \in 1..Len(prose) |-> ElementToText(prose[i])]
           IN  IF SelectSeq(cs, IsContent) # <<>>
               THEN ret[1] = CleanText(ElementToText(Head(SelectSeq(cs, IsContent))))
               ELSE ret[1] = CleanText(JoinWith(SelectSeq(parts, NonEmpty), <<" ">>))

\* An element with leading text, a structural child with text, num and two
\* prose children, and no content child: its text is made of the leading text
\* and the prose children.
C24_Witness ==
    /\ call.fn = "_extract_text"
    /\ ret # None
    /\ call.elem.text # <<>>
    /\ \E i \in 1..Len(call.elem.children) : call.elem.children[i].tag = "subsection"
    /\ \E i \in 1..Len(call.elem.children) : call.elem.children[i].tag = "p"
    /\ \A i \in 1..Len(call.elem.children) : call.elem.children[i].tag # "content"
    /\ StartsWith(ret[1], <<"a", " ">>)
    /\ ~Contains(ret[1], <<"s">>)

(***************************************************************************)
(* Claims about the elements that become nodes (specification Spec).       *)
(***************************************************************************)
\* The total_nodes the i-th outcome on the parser added to the counter.
NodesCountedBy(i) ==
    returned[i].total_nodes - (IF i = 1 THEN 0 ELSE returned[i - 1].total_nodes)

\* C25: without a cutoff, the nodes of a returned tree come from exactly the
\* source elements that have a recognized structural tag and whose ancestors
\* up to the title all have one; an element with another tag, and a
\* structural element below such an element, gives no node and is not
\* counted in total_nodes.
C25_NodesAreTheRecognizedPaths ==
    max_sections = None =>
        \A i \in 1..Len(returned) :
            /\ { n.elem : n \in TreeNodes(returned[i].root) }
                   = { j \in 1..Len(doc) : Materializable(j) }
            /\ \A n \in TreeNodes(returned[i].root) :
                   n.node_type = ELEMENT_TO_NODE_TYPE[doc[n.elem].elem.tag]
            /\ NodesCountedBy(i)
                   = Cardinality({ j \in 1..Len(doc) : Materializable(j) })

\* A tree returned without a cutoff for a document with a structural element
\* below a <note>: the <note> and the element below it are no nodes.
C25_Witness ==
    /\ max_sections = None
    /\ \E r \in Results, j \in 2..Len(doc) :
           /\ doc[j].elem.tag \in DOMAIN ELEMENT_TO_NODE_TYPE
           /\ doc[ParentOf(j)].elem.tag = "note"
           /\ j \notin { n.elem : n \in TreeNodes(r.root) }
           /\ r.total_nodes = 1

(***************************************************************************)
(* Claims about the context of a reference (specification SpecRefs).       *)
(***************************************************************************)
\* The longest context create_reference_relationships_batch stores
\* (`ref.context[:500]`).
ContextCap == 500

\* C27: the context of every reference extract_references returns is the
\* substring of the text from 30 characters before the start to 30 characters
\* after the end of a match that captured its target, stripped of surrounding
\* whitespace, with nothing added, and it is no longer than the cap.
C27_ContextIsVerbatimWindow ==
    (call.fn = "extract_references" /\ ret # None) =>
        \A i \in 1..Len(ret[1]) :
            LET r == ret[1][i]
                t == call.text
            IN  /\ \E p \in PatternIndices :
                       LET ms == FindIter(SECTION_REFERENCE_PATTERNS[p].atoms, t, 0)
                       IN  \E k \in 1..Len(ms) :
                               /\ \E g \in 1..Len(ms[k].groups) :
                                      ms[k].groups[g] = r.target_section
                               /\ r.context
                                      = Strip(Slice(t, Max(0, ms[k].start - ContextWindow),
                                                    Min(Len(t), ms[k].end + ContextWindow)),
                                              Whitespace)
                /\ Contains(t, r.context)
                /\ Len(r.context) <= ContextCap

(***************************************************************************)
(* TaxCodeGraph.create_reference_relationships_batch (specification        *)
(* SpecBatch): a list of (source_id, Reference) pairs is written to a      *)
(* graph of TaxUnit nodes, one batch per step.                             *)
(***************************************************************************)
\* The ids of the TaxUnit nodes a graph may hold.
GraphIds == { Str_26USC \o <<"1">>, Str_26USC \o Ref162.target_section,
              Str_26USC \o Ref274.target_section }

\* The (source_id, Reference) pairs lists are made of: the source is a node
\* the graph may hold.
SourcedReferences ==
    { <<Str_26USC \o <<"1">>, r>> : r \in {Ref162, Ref274} }
        \cup { <<Str_26USC \o Ref162.target_section, Ref274>> }

\* The lists of at most n pairs.
RECURSIVE ReferenceLists(_)
ReferenceLists(n) ==
    IF n = 0 THEN {<<>>}
    ELSE LET shorter == ReferenceLists(n - 1)
         IN  shorter \cup { Append(l, sr) : l \in shorter, sr \in SourcedReferences }

\* ref_data of one pair (lines 363-368).
RefData(sr) ==
    [source_id |-> sr[1],
     target_id |-> Str_26USC \o sr[2].target_section,
     ref_type |-> sr[2].reference_type,
     context |-> IF sr[2].context # <<>>
                 THEN SubSeq(sr[2].context, 1, Min(Len(sr[2].context), ContextCap))
                 ELSE <<>>]

\* A query that finds a target for every row.
MergedRowsAssumingTargets(ref_data, nodes) ==
    LET HasSource(ref) == ref.source_id \in nodes
    IN  SelectSeq(ref_data, HasSource)

\* The rows of the query that reach MERGE (lines 374-379): UNWIND gives one
\* row per ref, MATCH keeps the rows whose source node exists, OPTIONAL MATCH
\* and WHERE target IS NOT NULL keep those whose target node exists.
MergedRows(ref_data, nodes) ==
    LET Found(ref) == ref.source_id \in nodes /\ ref.target_id \in nodes
    IN  SelectSeq(ref_data, Found)

\* The REFERENCES relationships after MERGE and SET on the rows in order
\* (lines 379-381): one relationship per (source, target), carrying the type
\* and context of the last row that set them.
RECURSIVE MergeRelationships(_, _)
MergeRelationships(rels, rows) ==
    IF rows = <<>> THEN rels
    ELSE LET ref == Head(rows)
             others == { r \in rels : r.source # ref.source_id \/ r.target # ref.target_id }
         IN  MergeRelationships(
                 others \cup { [source |-> ref.source_id, target |-> ref.target_id,
                                type |-> ref.ref_type, context |-> ref.context] },
                 Tail(rows))

\* graph.create_reference_relationships_batch(references, batch_size) is
\* called on a graph holding some nodes and no REFERENCES relationship:
\* created = 0, not_found = 0 (lines 356-357), the loop at i = 0.
InitBatch ==
    /\ doc = <<>>
    /\ max_sections = None
    /\ sections_parsed = 0
    /\ total_nodes = 0
    /\ repealed_sections = <<>>
    /\ stack = <<>>
    /\ via = "idle"
    /\ returned = <<>>
    /\ \E references \in ReferenceLists(MaxRefs), batch_size \in 1..MaxBatch,
          nodes \in SUBSET GraphIds :
           call = [fn |-> "create_reference_relationships_batch",
                   references |-> references, batch_size |-> batch_size,
                   nodes |-> nodes, relationships |-> {},
                   i |-> 0, created |-> 0, not_found |-> 0]
    /\ ret = None

\* One turn of `for i in range(0, len(references), batch_size)` (lines
\* 360-389): the batch is written and counted.
WriteBatch ==
    /\ call.fn = "create_reference_relationships_batch"
    /\ ret = None
    /\ call.i < Len(call.references)
    /\ LET batch == SubSeq(call.references, call.i + 1,
                           Min(Len(call.references), call.i + call.batch_size))
           ref_data == [j \in 1..Len(batch) |-> RefData(batch[j])]
           rows == MergedRows(ref_data, call.nodes)
           batch_created == Len(rows)
       IN  call' = [call EXCEPT
                       !.relationships = MergeRelationships(@, rows),
                       !.created = @ + batch_created,
                       !.not_found = @ + Len(batch) - batch_created,
                       !.i = @ + call.batch_size]
    /\ UNCHANGED <<parserVars, ret>>

\* `return created, not_found` (line 401) once the loop is over.
ReturnCounts ==
    /\ call.fn = "create_reference_relationships_batch"
    /\ ret = None
    /\ call.i >= Len(call.references)
    /\ ret' = Some(<<call.created, call.not_found>>)
    /\ UNCHANGED <<parserVars, call>>

NextBatch == WriteBatch \/ ReturnCounts

SpecBatch == InitBatch /\ [][NextBatch]_vars

\* The positions of the references whose target node the graph lacks.
MissingTargets ==
    { j \in 1..Len(call.references) :
        Str_26USC \o call.references[j][2].target_section \notin call.nodes }

\* C28: the pair (created, not_found) returned has created + not_found equal
\* to the number of references submitted, whatever the batch size; every
\* reference whose target id "26 USC <target_section>" is no node of the graph
\* is counted in not_found and gets no relationship, the call returns for it
\* as for any other, and no step adds a node to the graph.
C28_CountsAddUp ==
    /\ [](call.fn = "create_reference_relationships_batch" =>
            /\ call.created + call.not_found
                   = Min(call.i, Len(call.references))
            /\ \A r \in call.relationships :
                   r.source \in call.nodes /\ r.target \in call.nodes
            /\ ret # None =>
                   /\ ret[1][1] + ret[1][2] = Len(call.references)
                   /\ ret[1][2] >= Cardinality(MissingTargets)
                   /\ ret[1][1] <= Len(call.references) - Cardinality(MissingTargets))
    /\ [][call.fn = "create_reference_relationships_batch"
             => call'.nodes = call.nodes]_vars

\* A call returned for three references written in two batches, one of them
\* to a target the graph lacks and one written.
C28_Witness ==
    /\ call.fn = "create_reference_relationships_batch"
    /\ ret # None
    /\ Len(call.references) = 3
    /\ call.batch_size = 2
    /\ Cardinality(MissingTargets) = 1
    /\ ret[1][1] >= 1
    /\ ret[1][2] >= 1

(***************************************************************************)
(* Claims about the cutoff as a stop of the traversal (specification Spec). *)
(***************************************************************************)
\* The source element the k-th section node of an uncut traversal is made
\* from, or the last element of the document when there are fewer.
LastBeforeCutoff(k) ==
    LET kth == { j \in 1..Len(doc) :
                   /\ Materializable(j)
                   /\ doc[j].elem.tag = "section"
                   /\ SectionRank(j) = k }
    IN  IF kth = {} THEN Len(doc) ELSE CHOOSE j \in kth : TRUE

\* C26: with a cutoff k >= 1 the nodes of a returned tree come from exactly
\* the source elements an uncut traversal makes nodes of up to and including
\* the k-th section in pre-order; nothing after it is made, and the node of
\* the k-th section has no children.
C26_CutoffIsAHardStop ==
    (max_sections # None /\ max_sections[1] >= 1) =>
        \A r \in Results :
            LET last == LastBeforeCutoff(max_sections[1])
            IN  /\ { n.elem : n \in TreeNodes(r.root) }
                       = { j \in 1..last : Materializable(j) }
                /\ \A n \in TreeNodes(r.root) :
                       (n.node_type = "section"
                            /\ SectionRank(n.elem) = max_sections[1])
                           => n.children = <<>>

(***************************************************************************)
(* ingest_tax_code (specification SpecIngest): a parsed tree is written to *)
(* a graph inside `with TaxCodeGraph(config) as graph`, one call of the    *)
(* graph per step.  The trees have fewer nodes, edges and references than  *)
(* the default batch_size, so each call writes one batch.                  *)
(***************************************************************************)
\* An order in which the edges are written before the nodes.
StepAfterEdgesFirst(step, clear_existing) ==
    IF step = "enter" THEN (IF clear_existing THEN "clear_database" ELSE "create_indexes")
    ELSE IF step = "clear_database" THEN "create_indexes"
    ELSE IF step = "create_indexes" THEN "create_parent_relationships_batch"
    ELSE IF step = "create_parent_relationships_batch" THEN "create_nodes_batch"
    ELSE IF step = "create_nodes_batch" THEN "create_reference_relationships_batch"
    ELSE IF step = "create_reference_relationships_batch" THEN "counts"
    ELSE "exit"

\* The call of the with-block that follows a step (lines 554-585).
StepAfter(step, clear_existing) ==
    IF step = "enter" THEN (IF clear_existing THEN "clear_database" ELSE "create_indexes")
    ELSE IF step = "clear_database" THEN "create_indexes"
    ELSE IF step = "create_indexes" THEN "create_nodes_batch"
    ELSE IF step = "create_nodes_batch" THEN "create_parent_relationships_batch"
    ELSE IF step = "create_parent_relationships_batch"
    THEN "create_reference_relationships_batch"
    ELSE IF step = "create_reference_relationships_batch" THEN "counts"
    ELSE "exit"

\* The ids of the nodes of a tree.
IdsOf(root) == { FlattenNodes(root)[i].id : i \in 1..Len(FlattenNodes(root)) }

\* ingest_tax_code(parsed, config, clear_existing) is called; the graph
\* holds nothing, or a node that is the target of a reference and a node the
\* tree does not have, joined by an edge.
InitIngest ==
    /\ doc = <<>>
    /\ max_sections = None
    /\ sections_parsed = 0
    /\ total_nodes = 0
    /\ repealed_sections = <<>>
    /\ stack = <<>>
    /\ via = "idle"
    /\ returned = <<>>
    /\ \E root \in Trees, clear_existing \in BOOLEAN, held \in BOOLEAN :
           call = [fn |-> "ingest_tax_code",
                   root |-> root,
                   clear_existing |-> clear_existing,
                   step |-> "enter",
                   log |-> <<>>,
                   indexes |-> FALSE,
                   nodes |-> IF held THEN { Str_26USC \o Ref162.target_section,
                                            Str_26USC \o <<"9">> }
                             ELSE {},
                   parent_of |-> IF held
                                 THEN { <<Str_26USC \o <<"9">>,
                                          Str_26USC \o Ref162.target_section>> }
                                 ELSE {},
                   references |-> {},
                   stats |-> [nodes_created |-> 0, parent_relationships |-> 0,
                              reference_relationships |-> 0,
                              references_not_found |-> 0]]
    /\ ret = None

\* The step the with-block is at is done: it is logged and the next one is due.
Done(step) == [call EXCEPT !.log = Append(@, step),
                           !.step = StepAfter(step, call.clear_existing)]

AtStep(step) ==
    /\ call.fn = "ingest_tax_code"
    /\ ret = None
    /\ call.step = step

\* `with TaxCodeGraph(config) as graph` is entered: __enter__ connects
\* (lines 93-95).
IngestEnter ==
    /\ AtStep("enter")
    /\ call' = [call EXCEPT !.step = StepAfter("enter", call.clear_existing)]
    /\ UNCHANGED <<parserVars, ret>>

\* graph.clear_database() (lines 143-152): DETACH DELETE of every TaxUnit
\* node, and with them their relationships.
ClearDatabase ==
    /\ AtStep("clear_database")
    /\ call' = [Done("clear_database") EXCEPT !.nodes = {}, !.parent_of = {},
                                              !.references = {}]
    /\ UNCHANGED <<parserVars, ret>>

\* graph.create_indexes() (lines 107-141).
CreateIndexes ==
    /\ AtStep("create_indexes")
    /\ call' = [Done("create_indexes") EXCEPT !.indexes = TRUE]
    /\ UNCHANGED <<parserVars, ret>>

\* graph.create_nodes_batch(flatten_nodes(parsed.root)) (lines 562-569):
\* MERGE of one TaxUnit per id, counted once per node of the list.
CreateNodesBatch ==
    /\ AtStep("create_nodes_batch")
    /\ call' = [Done("create_nodes_batch") EXCEPT
                    !.nodes = @ \cup IdsOf(call.root),
                    !.stats.nodes_created = Len(FlattenNodes(call.root))]
    /\ UNCHANGED <<parserVars, ret>>

\* graph.create_parent_relationships_batch(extract_parent_relationships(
\* parsed.root)) (lines 571-574): MERGE of PARENT_OF between the matched
\* parent and child (lines 278-283), counted once per pair of the list.
CreateParentRelationshipsBatch ==
    /\ AtStep("create_parent_relationships_batch")
    /\ LET rels == ExtractParentRelationships(call.root)
       IN  call' = [Done("create_parent_relationships_batch") EXCEPT
                       !.parent_of = @ \cup { rels[i] : i \in
                                                { j \in 1..Len(rels) :
                                                    /\ rels[j][1] \in call.nodes
                                                    /\ rels[j][2] \in call.nodes } },
                       !.stats.parent_relationships = Len(rels)]
    /\ UNCHANGED <<parserVars, ret>>

\* graph.create_reference_relationships_batch(extract_all_references(
\* parsed.root)) (lines 576-581).
CreateReferenceRelationshipsBatch ==
    /\ AtStep("create_reference_relationships_batch")
    /\ LET all_refs == ExtractAllReferences(call.root)
           ref_data == [j \in 1..Len(all_refs) |-> RefData(all_refs[j])]
           rows == MergedRows(ref_data, call.nodes)
       IN  call' = [Done("create_reference_relationships_batch") EXCEPT
                       !.references = MergeRelationships(@, rows),
                       !.stats.reference_relationships = Len(rows),
                       !.stats.references_not_found = Len(all_refs) - Len(rows)]
    /\ UNCHANGED <<parserVars, ret>>

\* graph.get_node_count() and graph.get_relationship_counts() (lines
\* 583-585).
GetCounts ==
    /\ AtStep("counts")
    /\ call' = Done("counts")
    /\ UNCHANGED <<parserVars, ret>>

\* The with-block ends, __exit__ closes the graph (lines 97-98) and stats is
\* returned (line 587).
IngestExit ==
    /\ AtStep("exit")
    /\ ret' = Some([raised |-> "no", stats |-> call.stats,
                    total_nodes |-> Cardinality(call.nodes)])
    /\ UNCHANGED <<parserVars, call>>

\* A call of the graph raises (the database is gone): nothing of the call is
\* written, the exception leaves the with-block and ingest_tax_code.
IngestRaise ==
    /\ call.fn = "ingest_tax_code"
    /\ ret = None
    /\ call.step # "exit"
    /\ ret' = Some([raised |-> "ServiceUnavailable"])
    /\ UNCHANGED <<parserVars, call>>

NextIngest ==
    \/ IngestEnter
    \/ ClearDatabase
    \/ CreateIndexes
    \/ CreateNodesBatch
    \/ CreateParentRelationshipsBatch
    \/ CreateReferenceRelationshipsBatch
    \/ GetCounts
    \/ IngestExit
    \/ IngestRaise

SpecIngest == InitIngest /\ [][NextIngest]_vars

\* The steps of ingest_tax_code in the order the claim gives them.
IngestOrder(clear_existing) ==
    (IF clear_existing THEN <<"clear_database">> ELSE <<>>)
        \o <<"create_indexes", "create_nodes_batch",
              "create_parent_relationships_batch",
              "create_reference_relationships_batch", "counts">>

\* C29: the steps ingest_tax_code has done are a beginning of the fixed order
\* clear_database (only with clear_existing), create_indexes, the node
\* upserts, the PARENT_OF relationships, the REFERENCES relationships, the
\* final counts; a returned call has done them all; and no step adds a
\* relationship to the graph unless every node of the tree is in the graph.
C29_IngestStepsInOrder ==
    /\ [](call.fn = "ingest_tax_code" =>
            /\ Len(call.log) <= Len(IngestOrder(call.clear_existing))
            /\ call.log = SubSeq(IngestOrder(call.clear_existing), 1, Len(call.log))
            /\ (ret # None /\ ret[1].raised = "no")
                   => call.log = IngestOrder(call.clear_existing))
    /\ [][call.fn = "ingest_tax_code" =>
             ((call'.parent_of \ call.parent_of) \cup (call'.references \ call.references)
                    # {}
                => IdsOf(call.root) \subseteq call.nodes)]_vars

\* A returned ingest with clear_existing on a graph that held nodes, of a
\* tree with an edge: the held nodes are gone and the edge is written.
C29_Witness ==
    /\ call.fn = "ingest_tax_code"
    /\ ret # None
    /\ ret[1].raised = "no"
    /\ call.clear_existing
    /\ Len(call.log) = 6
    /\ Str_26USC \o <<"9">> \notin call.nodes
    /\ call.parent_of # {}
    /\ call.stats.references_not_found >= 1

(***************************************************************************)
(* The driver of a TaxCodeGraph (specification SpecDriver): connect,       *)
(* close, the with-block and the driver property, called by a client in    *)
(* any order.  drivers are the drivers GraphDatabase.driver has made for   *)
(* the graph, _driver is the place of the one the graph holds.             *)
(***************************************************************************)
\* What verify_connectivity does (lines 76, 79, 82).
ConnectOutcomes == {"connected", "ServiceUnavailable", "AuthError"}

\* connect() (lines 69-84) on graph g: the new driver is assigned to _driver
\* (line 72) before verify_connectivity() (line 76); when that raises, the
\* exception is logged and raised again (lines 78-84) and _driver stays.
Connect(g, outcome) ==
    [g EXCEPT !.drivers = Append(@, [verified |-> outcome = "connected",
                                     closed |-> FALSE]),
              !._driver = Some(Len(g.drivers) + 1),
              !.raised = IF outcome = "connected" THEN "no" ELSE outcome]

\* close() (lines 86-91).
Close(g) ==
    IF g._driver # None
    THEN [g EXCEPT !.drivers[g._driver[1]].closed = TRUE, !._driver = None]
    ELSE g

\* TaxCodeGraph(config) just constructed (lines 59-67).
InitDriver ==
    /\ doc = <<>>
    /\ max_sections = None
    /\ sections_parsed = 0
    /\ total_nodes = 0
    /\ repealed_sections = <<>>
    /\ stack = <<>>
    /\ via = "idle"
    /\ returned = <<>>
    /\ call = [fn |-> "TaxCodeGraph", _driver |-> None, drivers |-> <<>>,
               raised |-> "no", in_with |-> FALSE, last |-> "__init__"]
    /\ ret = None

\* The client calls graph.connect().
ConnectCall ==
    /\ call.fn = "TaxCodeGraph"
    /\ Len(call.drivers) < MaxDrivers
    /\ \E outcome \in ConnectOutcomes :
           call' = [Connect(call, outcome) EXCEPT !.last = "connect"]
    /\ UNCHANGED <<parserVars, ret>>

\* The client calls graph.close().
CloseCall ==
    /\ call.fn = "TaxCodeGraph"
    /\ call' = [Close(call) EXCEPT !.raised = "no", !.last = "close"]
    /\ UNCHANGED <<parserVars, ret>>

\* `with graph:` is entered: __enter__ calls connect() (lines 93-95); when
\* connect raises the block is not entered and __exit__ is not called.
EnterWith ==
    /\ call.fn = "TaxCodeGraph"
    /\ ~call.in_with
    /\ Len(call.drivers) < MaxDrivers
    /\ \E outcome \in ConnectOutcomes :
           call' = [Connect(call, outcome) EXCEPT
                       !.in_with = (outcome = "connected"),
                       !.last = "__enter__"]
    /\ UNCHANGED <<parserVars, ret>>

\* The with-block ends, normally or by an exception of its body: __exit__
\* calls close() (lines 97-98).
ExitWith ==
    /\ call.fn = "TaxCodeGraph"
    /\ call.in_with
    /\ \E body \in {"no", "ServiceUnavailable"} :
           call' = [Close(call) EXCEPT !.in_with = FALSE, !.raised = body,
                                       !.last = "__exit__"]
    /\ UNCHANGED <<parserVars, ret>>

\* The client reads graph.driver (lines 100-105): connect() when _driver is
\* not set, then _driver is returned; ret is the driver handed out.
DriverProperty ==
    /\ call.fn = "TaxCodeGraph"
    /\ IF call._driver = None
       THEN /\ Len(call.drivers) < MaxDrivers
            /\ \E outcome \in ConnectOutcomes :
                   /\ call' = [Connect(call, outcome) EXCEPT !.last = "driver"]
                   /\ ret' = IF outcome = "connected"
                             THEN Some(Len(call.drivers) + 1)
                             ELSE ret
       ELSE /\ call' = [call EXCEPT !.raised = "no", !.last = "driver"]
            /\ ret' = call._driver
    /\ UNCHANGED parserVars

NextDriver ==
    \/ ConnectCall
    \/ CloseCall
    \/ EnterWith
    \/ ExitWith
    \/ DriverProperty

SpecDriver == InitDriver /\ [][NextDriver]_vars

\* C30: every driver the graph has made and no longer holds is closed; when
\* a with-block has ended _driver is None; when connect() has failed the
\* graph does not hold the driver that failed; and the driver property never
\* hands out a driver whose connectivity was not verified.
C30_DriversAreClosedAndVerified ==
    call.fn = "TaxCodeGraph" =>
        /\ \A i \in 1..Len(call.drivers) :
               call._driver # Some(i) => call.drivers[i].closed
        /\ call.last = "__exit__" => call._driver = None
        /\ call.raised \in {"ServiceUnavailable", "AuthError"}
               /\ call.last \in {"connect", "__enter__", "driver"}
               => call._driver = None
        /\ ret # None => call.drivers[ret[1]].verified

====
